---- MODULE Spec2Model ----
(***************************************************************************)
(* Model of masterpi1/example/core/task_scheduler.py: the TaskScheduler,   *)
(* its dispatch loop thread, the worker threads of its executor running    *)
(* _execute_task, and the client calls start / stop / submit_task /        *)
(* cancel_task.                                                            *)
(*                                                                         *)
(* Granularity.  A `with self.lock:` block whose body does not block is    *)
(* one step, enabled when the lock is free.  stop() keeps the lock while   *)
(* it waits in executor.shutdown and in Thread.join, so it is several      *)
(* steps with lock = "stop" in between.  The statements _execute_task      *)
(* runs outside the lock (the writes of task.status, retry_count and       *)
(* result) are steps of their own that do not need the lock.               *)
(***************************************************************************)
EXTENDS Integers, Sequences, FiniteSets, TLC

\* ------------------------------------------------------------ bounds
MaxTasks == 2      \* Task objects handed to submit_task
MaxIds == 2        \* distinct task id strings in use
MaxRetries == 1    \* largest max_retries of a submitted task
MaxTime == 1       \* readings of time.time() are 0..MaxTime
MaxWorkers == 2    \* max_workers of the executor
MaxStarts == 1     \* dispatch threads ever created by start()
MaxDepth == 2      \* set_state calls in progress at once (callbacks calling set_state)
MaxCalls == 3      \* calls of set_state and emergency_stop made
MaxUnits == 3      \* units of work handed to ThreadPool.submit
MaxHeap == 4       \* items held by the PriorityQueue
MaxItem == 4       \* items are 1..MaxItem
MaxThreads == 2    \* threads that call the StateManager
MaxBaseTasks == 2  \* BaseTask objects

\* ------------------------------------------------- program constants
LOW == 1
NORMAL == 2
HIGH == 3
URGENT == 4
PriorityBase == 5  \* priority_value = 5 - task.priority.value

Priorities == {LOW, NORMAL, HIGH, URGENT}
Ids == 1..MaxIds
\* dependency lists of the submitted tasks: none, or one task id
DepLists == {{}} \cup {{d} : d \in Ids}
NoTask == 0

PENDING == "pending"
RUNNING == "running"
COMPLETED == "completed"
FAILED == "failed"
CANCELLED == "cancelled"
TaskStatus == {PENDING, RUNNING, COMPLETED, FAILED, CANCELLED}

VARIABLES
    is_running,   \* TaskScheduler.is_running
    shut,         \* the executor has been shut down (executor._shutdown)
    lock,         \* owner of TaskScheduler.lock across steps: "none" or "stop"
    stop_pc,      \* position of the thread inside stop(): "idle", "shutdown", "join"
    tasks,        \* TaskScheduler.tasks: id -> index of the Task object, NoTask if absent
    task,         \* the Task objects, in order of construction
    futs,         \* futs[o]: the Futures created for Task object o, in order
    work_queue,   \* the executor's queue of work items <<o, n>> not yet taken
    task_queue,   \* TaskScheduler.task_queue, kept in heap order
    stats,        \* TaskScheduler.stats
    now,          \* the current reading of time.time()
    loops,        \* the dispatch threads: position and the entry popped
    last,         \* the client call made by the step just taken, and its outcome
    hist          \* history: hist[o] iff cancel_task found Task object o PENDING

\* StateManager (core/state_manager.py)
VARIABLES
    current_state,           \* StateManager._current_state
    previous_state,          \* StateManager._previous_state, "none" for None
    is_transitioning,        \* StateManager._is_transitioning
    state_change_callbacks,  \* StateManager._state_change_callbacks
    state_data,              \* StateManager._state_data
    calls,                   \* the set_state calls in progress, outermost first
    ncalls,                  \* how many calls of set_state have been made
    returned,                \* the set_state call that returned in the step just taken
    state_lock,              \* the thread that owns StateManager._state_lock, or NoThread
    reader                   \* the read of current_state made by the step just taken

\* a thread inside TaskScheduler.wait_for_task
VARIABLES
    waiter                   \* the Future it blocks on: <<Task object, future>>, or NoWaiter

\* ThreadPool (utils/thread_pool.py)
VARIABLES
    futures,                 \* ThreadPool.futures: key -> index of the Future, NoUnit if absent
    units,                   \* the Futures of the pool's executor, in order of submission
    pool_shut,               \* the pool's executor has been shut down
    shutdown_pc,             \* position of the thread inside ThreadPool.shutdown
    getter,                  \* the Future that get_result blocks on with ThreadPool.lock held
    get_timeout,             \* that get_result call was given a timeout
    caller,                  \* the unit of work that calls the pool, and where it is in the call
    stats_pc,                \* position of the thread inside get_stats: "idle", "running", "completed"
    pool_stats,              \* the counts get_stats has taken so far, and the dict it returned
    pool_last                \* the ThreadPool call that returned in the step just taken

pool_vars == <<futures, units, pool_shut, shutdown_pc, getter, get_timeout, caller,
               stats_pc, pool_stats, pool_last>>

\* PriorityQueue (software-engineering/src/priority_queue.py)
VARIABLES
    heap,                    \* PriorityQueue._heap
    size,                    \* PriorityQueue._size
    popped,                  \* the items returned by the pops made since the last push
    pq_last                  \* the PriorityQueue call that returned in the step just taken

pq_vars == <<heap, size, popped, pq_last>>

\* BaseTask (tasks/base_task.py), one entry per BaseTask object
VARIABLES
    bt_state,                \* BaseTask.state
    bt_result,               \* BaseTask.result: "none", "success", "failure", "cancelled"
    stop_event,              \* BaseTask.stop_event is set
    task_thread,             \* BaseTask.task_thread: where the thread is in _run_task
    bt_lock,                 \* owner of BaseTask.lock across steps: "none" or "stop"
    bt_last                  \* the BaseTask call that returned in the step just taken

bt_vars == <<bt_state, bt_result, stop_event, task_thread, bt_lock, bt_last>>

sched_vars == <<is_running, shut, lock, stop_pc, tasks, task, futs, work_queue,
                task_queue, stats, now, loops, last, hist>>
state_vars == <<current_state, previous_state, is_transitioning,
                state_change_callbacks, state_data, calls, ncalls, returned,
                state_lock, reader>>
\* what the steps of the TaskScheduler leave alone
other_vars == <<waiter, state_vars, pool_vars, pq_vars, bt_vars>>

vars == <<sched_vars, other_vars>>

\* ------------------------------------------------------- the queue
\* Tuples (priority_value, created_at, task_id) compare lexicographically.
EntryLess(a, b) ==
    \/ a[1] < b[1]
    \/ a[1] = b[1] /\ a[2] < b[2]
    \/ a[1] = b[1] /\ a[2] = b[2] /\ a[3] < b[3]

\* queue.PriorityQueue.put: the queue is kept as the sorted sequence get() drains.
QueuePut(q, e) ==
    LET k == Cardinality({i \in 1..Len(q) : ~EntryLess(e, q[i])})
    IN  SubSeq(q, 1, k) \o <<e>> \o SubSeq(q, k + 1, Len(q))

\* faulty variant: the priority's own value is used as the key
PriorityValue_NotInverted(p) == p

\* line 146 (and 330): priority_value = 5 - task.priority.value
PriorityValue(p) == PriorityBase - p

\* ------------------------------------------------------- helpers
Objs == 1..Len(task)

\* Task(...), lines 39-60: retry_count, status, result and future take their defaults
NewTask(i, p, deps, mr, ca) ==
    [id |-> i, priority |-> p, dependencies |-> deps, max_retries |-> mr,
     retry_count |-> 0, created_at |-> ca,
     status |-> PENDING, result |-> "none", future |-> 0]

\* faulty variant: the dependencies are not looked up
CheckDependencies_Skipped(deps) == TRUE

\* _check_dependencies, evaluated for the dependency list of a task
CheckDependencies(deps) == \A d \in deps : tasks[d] # NoTask

\* faulty variant: a dependency only has to be registered
AreDependenciesCompleted_Registered(o) ==
    \A d \in task[o].dependencies : tasks[d] # NoTask

\* _are_dependencies_completed
AreDependenciesCompleted(o) ==
    \A d \in task[o].dependencies :
        tasks[d] # NoTask /\ task[tasks[d]].status = COMPLETED

\* A Future is "queued" (pending in the executor), at a position of _execute_task
\* on a worker thread, "done" or "cancelled".
WorkerPcs == {"body", "inc_completed", "inc_failed", "retry", "put", "finally"}
RunningFutures ==
    UNION {{<<o, n>> : n \in {m \in 1..Len(futs[o]) : futs[o][m].pc \in WorkerPcs}} :
             o \in 1..Len(futs)}
RunningWorkers == Cardinality(RunningFutures)

\* `last` labels the step just taken: the submit_task, cancel_task or stop call it was,
\* with the value returned or the exception raised; NoCall for any other step.
NoCall == [op |-> "none", arg |-> 0, deps |-> {}, ret |-> "none"]

\* ------------------------------------------------------- StateManager: data
\* RobotState, state_manager.py lines 13-24
IDLE == "idle"
INITIALIZING == "initializing"
LINE_FOLLOWING == "line_following"
OBJECT_PICKUP == "object_pickup"
DANCING == "dancing"
STACKING == "stacking"
TRASH_SORTING == "trash_sorting"
EMERGENCY_STOP == "emergency_stop"
ERROR == "error"
SHUTDOWN == "shutdown"
RobotState == {IDLE, INITIALIZING, LINE_FOLLOWING, OBJECT_PICKUP, DANCING, STACKING,
               TRASH_SORTING, EMERGENCY_STOP, ERROR, SHUTDOWN}

\* valid_transitions, lines 105-142
ValidTransitions ==
    [s \in RobotState |->
        CASE s = IDLE -> {INITIALIZING, LINE_FOLLOWING, OBJECT_PICKUP, DANCING,
                          EMERGENCY_STOP, SHUTDOWN}
          [] s = INITIALIZING -> {IDLE, ERROR, EMERGENCY_STOP}
          [] s = LINE_FOLLOWING -> {IDLE, OBJECT_PICKUP, DANCING, STACKING,
                                    TRASH_SORTING, EMERGENCY_STOP, ERROR}
          [] s = OBJECT_PICKUP -> {IDLE, LINE_FOLLOWING, STACKING, EMERGENCY_STOP, ERROR}
          [] s = DANCING -> {IDLE, LINE_FOLLOWING, EMERGENCY_STOP, ERROR}
          [] s = STACKING -> {IDLE, LINE_FOLLOWING, EMERGENCY_STOP, ERROR}
          [] s = TRASH_SORTING -> {IDLE, LINE_FOLLOWING, EMERGENCY_STOP, ERROR}
          [] s = EMERGENCY_STOP -> {IDLE, SHUTDOWN, ERROR}
          [] s = ERROR -> {IDLE, EMERGENCY_STOP, SHUTDOWN}
          [] s = SHUTDOWN -> {}]

\* faulty variant: every transition is accepted
IsValidTransition_Any(from_state, to_state) == TRUE

\* _is_valid_transition, line 144
IsValidTransition(from_state, to_state) == to_state \in ValidTransitions[from_state]

\* The callbacks registered: one that returns, or one that raises.  Callbacks are
\* registered for the states of CallbackStates; while it runs, a callback may call
\* the StateManager itself (the lock is re-entrant).
CallbackKinds == {"returns", "raises"}
CallbackStates == {LINE_FOLLOWING, EMERGENCY_STOP}
NoCallback == "none"

\* keys and values of the state data
DataKeys == {"k"}
DataValues == {"v"}
NoData == "none"

\* `returned` labels the step just taken: the set_state call that returned in it
\* (for emergency_stop, the set_state call it makes), whether its callback raised,
\* and the value set_state returned; NoReturn for any other step.
NoReturn == [op |-> "none", new |-> "none", force |-> FALSE, raised |-> FALSE,
             ret |-> "none"]

\* __init__, lines 29-36
\* the threads that call the StateManager, and the owner of a free lock
Threads == 1..MaxThreads
NoThread == 0
NoRead == [thread |-> NoThread, value |-> "none"]

StateInit ==
    /\ current_state = IDLE
    /\ previous_state = "none"
    /\ is_transitioning = FALSE
    /\ state_change_callbacks = [s \in RobotState |-> NoCallback]
    /\ state_data = [k \in DataKeys |-> NoData]
    /\ calls = <<>>
    /\ ncalls = 0
    /\ returned = NoReturn
    /\ state_lock = NoThread
    /\ reader = NoRead

NoWaiter == <<0, 0>>

\* ------------------------------------------------------- ThreadPool: data
PoolKeys == {"a", "b"}
NoUnit == 0

\* `pool_last` labels the step just taken: the ThreadPool call that returned in
\* it, its key, the value returned or the exception raised, and for submit and
\* get_result the Future returned or waited for; NoPoolCall for any other step.
NoPoolCall == [op |-> "none", key |-> "none", ret |-> "none", unit |-> 0]

\* no unit of work has called the pool
NoCaller == [unit |-> NoUnit, pc |-> "none"]

\* the dict of get_stats, lines 165-171, before anything is counted
NoStats == [total_tasks |-> 0, running_tasks |-> 0, completed_tasks |-> 0,
            pending_tasks |-> 0]

\* ThreadPool.__init__, lines 16-25
PoolInit ==
    /\ futures = [k \in PoolKeys |-> NoUnit]
    /\ units = <<>>
    /\ pool_shut = FALSE
    /\ shutdown_pc = "idle"
    /\ getter = NoUnit
    /\ get_timeout = FALSE
    /\ caller = NoCaller
    /\ stats_pc = "idle"
    /\ pool_stats = NoStats
    /\ pool_last = NoPoolCall

\* ------------------------------------------------------- Init
\* PriorityQueue heap: indices count from 0 as in the source
Items == 1..MaxItem
NoVal == 0
NoChild == -1
NoPQCall == [op |-> "none", ret |-> "none", val |-> NoVal]

\* __init__, lines 20-23
PQInit ==
    /\ heap = <<>>
    /\ size = 0
    /\ popped = <<>>
    /\ pq_last = NoPQCall

\* ------------------------------------------------------- BaseTask: data
BaseTasks == 1..MaxBaseTasks

\* TaskState, base_task.py lines 14-22
TaskState == {"idle", "initializing", "running", "paused", "completed", "failed",
              "cancelled"}

\* task_thread: None ("none"), or the position of the thread in _run_task and
\* what execute() did: "begin" before line 234, "execute" in line 239,
\* "set_result" before line 242, "set_failed" before line 256, "exiting" after
\* the last block under the lock, "ended" when the thread is no longer alive
NoThreadYet == [pc |-> "none", outcome |-> "none"]
IsAlive(th) == th.pc \notin {"none", "ended"}

NoBtCall == [task |-> 0, op |-> "none", ret |-> "none"]

\* BaseTask.__init__, lines 35-56
BaseTaskInit ==
    /\ bt_state = [b \in BaseTasks |-> "idle"]
    /\ bt_result = [b \in BaseTasks |-> "none"]
    /\ stop_event = [b \in BaseTasks |-> FALSE]
    /\ task_thread = [b \in BaseTasks |-> NoThreadYet]
    /\ bt_lock = [b \in BaseTasks |-> "none"]
    /\ bt_last = NoBtCall

Init ==
    /\ BaseTaskInit
    /\ StateInit
    /\ PoolInit
    /\ PQInit
    /\ waiter = NoWaiter
    /\ is_running = FALSE
    /\ shut = FALSE
    /\ lock = "none"
    /\ stop_pc = "idle"
    /\ tasks = [i \in Ids |-> NoTask]
    /\ task = <<>>
    /\ futs = <<>>
    /\ work_queue = <<>>
    /\ task_queue = <<>>
    /\ stats = [total_tasks |-> 0, completed_tasks |-> 0,
                failed_tasks |-> 0, cancelled_tasks |-> 0]
    /\ now = 0
    /\ loops = <<>>
    /\ last = NoCall
    /\ hist = <<>>

Called(op, arg, deps, ret) == [op |-> op, arg |-> arg, deps |-> deps, ret |-> ret]

\* time.time() moves on
Tick ==
    /\ now < MaxTime
    /\ now' = now + 1
    /\ last' = NoCall
    /\ UNCHANGED <<is_running, shut, lock, stop_pc, tasks, task, futs, work_queue,
                   task_queue, stats, loops, hist>>
    /\ UNCHANGED other_vars

\* ------------------------------------------------------- client calls
NoItem == <<0, 0, 0>>

\* start(), lines 88-101, with at most max dispatch threads ever created
StartUpTo(max) ==
    /\ lock = "none"
    /\ IF is_running
       THEN UNCHANGED <<is_running, loops>>
       ELSE /\ Len(loops) < max
            /\ is_running' = TRUE
            /\ loops' = Append(loops, [pc |-> "check", item |-> NoItem])
    /\ last' = NoCall
    /\ UNCHANGED <<shut, lock, stop_pc, tasks, task, futs, work_queue, task_queue,
                   stats, now, hist>>
    /\ UNCHANGED other_vars

Start == StartUpTo(MaxStarts)

\* _cancel_pending_tasks, lines 365-370: the Task objects the registry holds
Registered == {tasks[i] : i \in Ids} \ {NoTask}
PendingRegistered == {o \in Registered : task[o].status = PENDING}

\* faulty variant: no task is cancelled
CancelPendingTasks_None == task

CancelPendingTasks ==
    [o \in DOMAIN task |->
        IF o \in PendingRegistered THEN [task[o] EXCEPT !.status = CANCELLED]
        ELSE task[o]]

\* stop(wait), lines 103-119: up to the call of executor.shutdown, which sets the
\* executor's shutdown flag at once and, with wait, blocks with the lock held
Stop(wait) ==
    /\ lock = "none"
    /\ stop_pc = "idle"
    /\ IF ~is_running
       THEN UNCHANGED <<is_running, shut, lock, stop_pc, task, stats>>
       ELSE /\ is_running' = FALSE
            /\ task' = CancelPendingTasks
            /\ stats' = [stats EXCEPT !.cancelled_tasks =
                                          @ + Cardinality(PendingRegistered)]
            /\ shut' = TRUE
            /\ lock' = "stop"
            /\ stop_pc' = IF wait THEN "shutdown" ELSE "join"
    /\ last' = Called("stop", 0, {}, "None")
    /\ UNCHANGED <<tasks, futs, work_queue, task_queue, now, loops, hist>>
    /\ UNCHANGED other_vars

\* executor.shutdown(wait=True) returns, line 116: every work item has been run
\* or cancelled and the worker threads have ended
StopShutdownReturns ==
    /\ stop_pc = "shutdown"
    /\ work_queue = <<>>
    /\ RunningWorkers = 0
    /\ stop_pc' = "join"
    /\ last' = NoCall
    /\ UNCHANGED <<is_running, shut, lock, tasks, task, futs, work_queue,
                   task_queue, stats, now, loops, hist>>
    /\ UNCHANGED other_vars

\* lines 120-123: join(timeout=5.0) of the latest dispatch thread returns when the
\* thread has ended, or by its timeout when the thread waits for the lock that
\* stop() itself holds; then the lock is released
StopJoinReturns ==
    /\ stop_pc = "join"
    /\ loops[Len(loops)].pc \in {"dead", "have"}
    /\ stop_pc' = "idle"
    /\ lock' = "none"
    /\ last' = NoCall
    /\ UNCHANGED <<is_running, shut, tasks, task, futs, work_queue, task_queue,
                   stats, now, loops, hist>>
    /\ UNCHANGED other_vars

\* faulty variant: is_running is not tested
SubmitRejection_NoRunningTest(deps) ==
    IF ~CheckDependencies(deps) THEN "ValueError" ELSE "none"

\* submit_task, lines 136-141: the exception raised, "none" if the task is accepted
SubmitRejection(deps) ==
    IF ~is_running THEN "RuntimeError"
    ELSE IF ~CheckDependencies(deps) THEN "ValueError"
    ELSE "none"

\* submit_task(task), lines 125-152, of a Task object constructed at time ca
SubmitTask(i, p, deps, mr, ca) ==
    /\ lock = "none"
    /\ Len(task) < MaxTasks
    /\ IF SubmitRejection(deps) # "none"
       THEN /\ last' = Called("submit", i, deps, SubmitRejection(deps))
            /\ UNCHANGED <<tasks, task, futs, task_queue, stats, hist>>
       ELSE /\ task' = Append(task, NewTask(i, p, deps, mr, ca))
            /\ futs' = Append(futs, <<>>)
            /\ hist' = Append(hist, FALSE)
            /\ tasks' = [tasks EXCEPT ![i] = Len(task) + 1]
            /\ task_queue' = QueuePut(task_queue, <<PriorityValue(p), ca, i>>)
            /\ stats' = [stats EXCEPT !.total_tasks = @ + 1]
            /\ last' = Called("submit", i, deps, "id")
    /\ UNCHANGED <<is_running, shut, lock, stop_pc, work_queue, now, loops>>
    /\ UNCHANGED other_vars

\* faulty variant: a Future that runs is cancelled too
FutureCancel_Always(pc) == TRUE

\* Future.cancel() of a Future at pc: the value returned (False once it runs or is done)
FutureCancel(pc) == pc \in {"queued", "cancelled"}

\* cancel_task(task_id), lines 154-182
CancelTask(i) ==
    /\ lock = "none"
    /\ LET o == tasks[i] IN
       IF o = NoTask
       THEN /\ last' = Called("cancel", i, {}, "False")
            /\ UNCHANGED <<task, futs, work_queue, stats, hist>>
       ELSE IF task[o].status = RUNNING /\ task[o].future # 0
       THEN LET n == task[o].future
                cancelled == FutureCancel(futs[o][n].pc) IN
            /\ last' = Called("cancel", i, {}, IF cancelled THEN "True" ELSE "False")
            /\ IF cancelled
               THEN /\ futs' = [futs EXCEPT ![o][n].pc = "cancelled"]
                    /\ work_queue' = SelectSeq(work_queue, LAMBDA w : w # <<o, n>>)
                    /\ task' = [task EXCEPT ![o].status = CANCELLED]
                    /\ stats' = [stats EXCEPT !.cancelled_tasks = @ + 1]
               ELSE UNCHANGED <<task, futs, work_queue, stats>>
            /\ UNCHANGED hist
       ELSE IF task[o].status = PENDING
       THEN /\ task' = [task EXCEPT ![o].status = CANCELLED]
            /\ stats' = [stats EXCEPT !.cancelled_tasks = @ + 1]
            /\ hist' = [hist EXCEPT ![o] = TRUE]
            /\ last' = Called("cancel", i, {}, "True")
            /\ UNCHANGED <<futs, work_queue>>
       ELSE /\ last' = Called("cancel", i, {}, "False")
            /\ UNCHANGED <<task, futs, work_queue, stats, hist>>
    /\ UNCHANGED <<is_running, shut, lock, stop_pc, tasks, task_queue, now, loops>>
    /\ UNCHANGED other_vars

\* ------------------------------------------------------- the dispatch loop
\* _scheduler_loop, line 254: the test of `while self.is_running`
LoopCheck(t) ==
    /\ loops[t].pc = "check"
    /\ loops' = [loops EXCEPT ![t].pc = IF is_running THEN "get" ELSE "dead"]
    /\ last' = NoCall
    /\ UNCHANGED <<is_running, shut, lock, stop_pc, tasks, task, futs, work_queue,
                   task_queue, stats, now, hist>>
    /\ UNCHANGED other_vars

\* lines 257-260: task_queue.get(timeout=1.0) returns the least entry, or raises
\* queue.Empty and the loop continues
LoopGet(t) ==
    /\ loops[t].pc = "get"
    /\ IF task_queue = <<>>
       THEN /\ loops' = [loops EXCEPT ![t].pc = "check"]
            /\ UNCHANGED task_queue
       ELSE /\ loops' = [loops EXCEPT ![t] = [pc |-> "have", item |-> Head(task_queue)]]
            /\ task_queue' = Tail(task_queue)
    /\ last' = NoCall
    /\ UNCHANGED <<is_running, shut, lock, stop_pc, tasks, task, futs, work_queue,
                   stats, now, hist>>
    /\ UNCHANGED other_vars

\* faulty variant: the status of the task is not tested
Dispatchable_AnyStatus(o) == o # NoTask

\* lines 263-265: the entry popped still names a registered task that is PENDING
Dispatchable(o) == o # NoTask /\ task[o].status = PENDING

\* lines 262-277, the block under the lock; executor.submit raises RuntimeError
\* after shutdown, which line 279 catches with the task already marked RUNNING
LoopDispatch(t) ==
    /\ loops[t].pc = "have"
    /\ lock = "none"
    /\ LET item == loops[t].item
           o == tasks[item[3]] IN
       IF ~Dispatchable(o)
       THEN UNCHANGED <<task, futs, work_queue, task_queue>>
       ELSE IF ~AreDependenciesCompleted(o)
       THEN /\ task_queue' = QueuePut(task_queue, item)
            /\ UNCHANGED <<task, futs, work_queue>>
       ELSE IF shut
       THEN /\ task' = [task EXCEPT ![o].status = RUNNING]
            /\ UNCHANGED <<futs, work_queue, task_queue>>
       ELSE /\ task' = [task EXCEPT ![o].status = RUNNING,
                                    ![o].future = Len(futs[o]) + 1]
            /\ futs' = [futs EXCEPT ![o] = Append(@, [pc |-> "queued", res |-> "none"])]
            /\ work_queue' = Append(work_queue, <<o, Len(futs[o]) + 1>>)
            /\ UNCHANGED task_queue
    /\ loops' = [loops EXCEPT ![t] = [pc |-> "check", item |-> NoItem]]
    /\ last' = NoCall
    /\ UNCHANGED <<is_running, shut, lock, stop_pc, tasks, stats, now, hist>>
    /\ UNCHANGED other_vars

\* ------------------------------------------------------- _execute_task
\* a free worker thread takes the oldest work item and calls _execute_task,
\* which calls task.func (lines 293-304)
WorkerStart ==
    /\ work_queue # <<>>
    /\ RunningWorkers < MaxWorkers
    /\ LET o == Head(work_queue)[1]
           n == Head(work_queue)[2] IN
       futs' = [futs EXCEPT ![o][n].pc = "body"]
    /\ work_queue' = Tail(work_queue)
    /\ last' = NoCall
    /\ UNCHANGED <<is_running, shut, lock, stop_pc, tasks, task, task_queue, stats,
                   now, loops, hist>>
    /\ UNCHANGED other_vars

\* faulty variant: the exception of task.func leaves _execute_task
BodyOutcome_Escapes(ok) ==
    IF ok THEN [pc |-> "inc_completed", res |-> "ok"]
    ELSE [pc |-> "done", res |-> "exc"]

\* lines 306-307 and 315-316: the TaskResult of the attempt, success with the data
\* ("ok") or failure with the error ("err"), and where _execute_task goes on; a
\* Future whose call raised would hold the exception ("exc")
BodyOutcome(ok) ==
    IF ok THEN [pc |-> "inc_completed", res |-> "ok"]
    ELSE [pc |-> "inc_failed", res |-> "err"]

\* task.func returns (lines 306-308) or raises (lines 315-317)
WorkerBody(o, n, ok) ==
    /\ futs[o][n].pc = "body"
    /\ task' = [task EXCEPT ![o].status = IF ok THEN COMPLETED ELSE FAILED]
    /\ futs' = [futs EXCEPT ![o][n] = BodyOutcome(ok)]
    /\ last' = NoCall
    /\ UNCHANGED <<is_running, shut, lock, stop_pc, tasks, work_queue, task_queue,
                   stats, now, loops, hist>>
    /\ UNCHANGED other_vars

\* lines 310-311
WorkerIncCompleted(o, n) ==
    /\ futs[o][n].pc = "inc_completed"
    /\ lock = "none"
    /\ stats' = [stats EXCEPT !.completed_tasks = @ + 1]
    /\ futs' = [futs EXCEPT ![o][n].pc = "finally"]
    /\ last' = NoCall
    /\ UNCHANGED <<is_running, shut, lock, stop_pc, tasks, task, work_queue,
                   task_queue, now, loops, hist>>
    /\ UNCHANGED other_vars

\* lines 319-320
WorkerIncFailed(o, n) ==
    /\ futs[o][n].pc = "inc_failed"
    /\ lock = "none"
    /\ stats' = [stats EXCEPT !.failed_tasks = @ + 1]
    /\ futs' = [futs EXCEPT ![o][n].pc = "retry"]
    /\ last' = NoCall
    /\ UNCHANGED <<is_running, shut, lock, stop_pc, tasks, task, work_queue,
                   task_queue, now, loops, hist>>
    /\ UNCHANGED other_vars

\* faulty variant: one retry too many
CanRetry_OffByOne(o) == task[o].retry_count <= task[o].max_retries

\* line 325
CanRetry(o) == task[o].retry_count < task[o].max_retries

\* lines 325-327
WorkerRetry(o, n) ==
    /\ futs[o][n].pc = "retry"
    /\ IF CanRetry(o)
       THEN /\ task' = [task EXCEPT ![o].retry_count = @ + 1, ![o].status = PENDING]
            /\ futs' = [futs EXCEPT ![o][n].pc = "put"]
       ELSE /\ futs' = [futs EXCEPT ![o][n].pc = "finally"]
            /\ UNCHANGED task
    /\ last' = NoCall
    /\ UNCHANGED <<is_running, shut, lock, stop_pc, tasks, work_queue, task_queue,
                   stats, now, loops, hist>>
    /\ UNCHANGED other_vars

\* lines 330-332
WorkerPut(o, n) ==
    /\ futs[o][n].pc = "put"
    /\ lock = "none"
    /\ task_queue' = QueuePut(task_queue,
                              <<PriorityValue(task[o].priority), now, task[o].id>>)
    /\ futs' = [futs EXCEPT ![o][n].pc = "finally"]
    /\ last' = NoCall
    /\ UNCHANGED <<is_running, shut, lock, stop_pc, tasks, task, work_queue, stats,
                   now, loops, hist>>
    /\ UNCHANGED other_vars

\* the completion callbacks of a task: none, one that returns, one that raises
Callbacks == {"none", "returns", "raises"}

\* faulty variant: the exception of the callback leaves _execute_task
Returns_CallbackEscapes(res, cb) == IF cb = "raises" THEN "exc" ELSE res

\* lines 342-348: what _execute_task returns after the callback cb has run; the
\* exception of a callback is caught and printed (lines 345-346)
Returns(res, cb) == res

\* lines 336-348: the result is attached, the callback cb runs, the Future is
\* done; `last` records the callback and how it ended
WorkerFinally(o, n, cb) ==
    /\ futs[o][n].pc = "finally"
    /\ task' = [task EXCEPT ![o].result = futs[o][n].res]
    /\ futs' = [futs EXCEPT ![o][n] = [pc |-> "done", res |-> Returns(@.res, cb)]]
    /\ last' = Called("callback", o, {}, cb)
    /\ UNCHANGED <<is_running, shut, lock, stop_pc, tasks, work_queue, task_queue,
                   stats, now, loops, hist>>
    /\ UNCHANGED other_vars

\* ------------------------------------------------------- specification
\* The callers give every Task an id of its own (robot.py builds it from the task
\* name and the time): a submitted task carries an id not yet in the registry.
FreshIds == {i \in Ids : tasks[i] = NoTask}

Client ==
    \/ Start
    \/ \E wait \in BOOLEAN : Stop(wait)
    \/ StopShutdownReturns
    \/ StopJoinReturns
    \/ \E i \in FreshIds, p \in {NORMAL, HIGH}, deps \in DepLists, mr \in 0..MaxRetries :
          SubmitTask(i, p, deps, mr, now)
    \/ \E i \in Ids : CancelTask(i)

Loop == \E t \in DOMAIN loops : LoopCheck(t) \/ LoopGet(t) \/ LoopDispatch(t)

Worker ==
    \/ WorkerStart
    \/ \E o \in DOMAIN futs : \E n \in DOMAIN futs[o] :
          \/ \E ok \in BOOLEAN : WorkerBody(o, n, ok)
          \/ WorkerIncCompleted(o, n)
          \/ WorkerIncFailed(o, n)
          \/ WorkerRetry(o, n)
          \/ WorkerPut(o, n)
          \/ \E cb \in Callbacks : WorkerFinally(o, n, cb)

Next == Client \/ Loop \/ Worker

Spec == Init /\ [][Next]_vars

\* The ordering claims: tasks of all four priorities, constructed at any earlier
\* reading of the clock, on a scheduler that is started and left running.
OrderClient ==
    \/ Start
    \/ \E i \in FreshIds, p \in Priorities, deps \in DepLists, ca \in 0..now :
          SubmitTask(i, p, deps, 0, ca)

OrderNext == Tick \/ OrderClient \/ Loop \/ Worker

OrderSpec == Init /\ [][OrderNext]_vars

\* The progress claims: a scheduler that is started and never stopped, no task
\* cancelled.  The dispatch thread and the worker threads are scheduled whenever
\* they can take a step.
FairClient ==
    \/ Start
    \/ \E i \in FreshIds, p \in {NORMAL, HIGH}, deps \in DepLists, mr \in 0..MaxRetries :
          SubmitTask(i, p, deps, mr, now)

FairNext == FairClient \/ Loop \/ Worker

FairSpec == Init /\ [][FairNext]_vars /\ WF_vars(Loop) /\ WF_vars(Worker)

\* The restart claims: a scheduler that is stopped and started again (start()
\* creates a new dispatch thread and keeps the executor), tasks without
\* dependencies submitted at any time.
RestartClient ==
    \/ StartUpTo(MaxStarts + 1)
    \/ \E wait \in BOOLEAN : Stop(wait)
    \/ StopShutdownReturns
    \/ StopJoinReturns
    \/ \E i \in FreshIds, mr \in 0..MaxRetries : SubmitTask(i, NORMAL, {}, mr, now)

RestartNext == RestartClient \/ Loop \/ Worker

RestartSpec == Init /\ [][RestartNext]_vars

\* The registry claims: submit_task takes the id the caller put into the Task,
\* whether or not the registry already holds a task under it.
ReuseClient ==
    \/ Start
    \/ \E i \in Ids, deps \in DepLists, mr \in 0..MaxRetries :
          SubmitTask(i, NORMAL, deps, mr, now)

ReuseNext == ReuseClient \/ Loop \/ Worker

ReuseSpec == Init /\ [][ReuseNext]_vars

\* ------------------------------------------------------- wait_for_task
\* wait_for_task(task_id, timeout), lines 223-225, read without the lock: without
\* a task or a Future it returns False at once, else it blocks in Future.result
WaitForTask(i) ==
    /\ waiter = NoWaiter
    /\ LET o == tasks[i] IN
       IF o = NoTask \/ task[o].future = 0
       THEN /\ last' = Called("wait", i, {}, "False")
            /\ UNCHANGED waiter
       ELSE /\ waiter' = <<o, task[o].future>>
            /\ last' = NoCall
    /\ UNCHANGED <<is_running, shut, lock, stop_pc, tasks, task, futs, work_queue,
                   task_queue, stats, now, loops, hist>>
    /\ UNCHANGED <<state_vars, pool_vars, pq_vars, bt_vars>>

\* Future.result(timeout) of a Future at pc, lines 227-231: it returns once the
\* Future is done, raises CancelledError if it was cancelled, and TimeoutError if
\* the timeout passes first
FutureResult(pc) ==
    IF pc = "done" THEN "True" ELSE "False"

\* lines 227-231: wait_for_task returns
WaitReturns ==
    /\ waiter # NoWaiter
    /\ last' = Called("wait", task[waiter[1]].id, {},
                      FutureResult(futs[waiter[1]][waiter[2]].pc))
    /\ waiter' = NoWaiter
    /\ UNCHANGED <<is_running, shut, lock, stop_pc, tasks, task, futs, work_queue,
                   task_queue, stats, now, loops, hist>>
    /\ UNCHANGED <<state_vars, pool_vars, pq_vars, bt_vars>>

\* The waiting claims: a scheduler that is started and left running, tasks
\* submitted, cancelled and waited for.
WaitClient ==
    \/ Start
    \/ \E i \in FreshIds, p \in {NORMAL, HIGH}, deps \in DepLists, mr \in 0..MaxRetries :
          SubmitTask(i, p, deps, mr, now)
    \/ \E i \in Ids : CancelTask(i)
    \/ \E i \in Ids : WaitForTask(i)
    \/ WaitReturns

WaitNext == WaitClient \/ Loop \/ Worker

WaitSpec == Init /\ [][WaitNext]_vars

\* ------------------------------------------------------- ThreadPool: steps
\* A Future of the pool is "queued" in the executor, "running", "done" or
\* "cancelled".  Every method body under `with self.lock` is one step, enabled
\* when the lock is free; get_result keeps the lock while it blocks (getter).
PoolCalled(op, key, ret, unit) == [op |-> op, key |-> key, ret |-> ret, unit |-> unit]

\* `with self.lock` (a threading.Lock, line 24): the lock is free when no
\* get_result is blocked with it and no get_stats is counting
PoolLockFree == getter = NoUnit /\ stats_pc = "idle"

\* Future.done() and Future.running()
FutureDone(state) == state \in {"done", "cancelled"}
FutureRunning(state) == state = "running"

\* faulty variant: cancel() has no effect
AfterCancel_Kept(state) == state

\* faulty variant: cancel() also cancels a Future that is running
AfterCancel_Any(state) == IF state \in {"queued", "running"} THEN "cancelled" ELSE state

\* the state of a Future after cancel(): only a queued Future is cancelled
AfterCancel(state) == IF state = "queued" THEN "cancelled" ELSE state

\* lines 41-45 of submit, and lines 184-186 of shutdown: the Future tracked under
\* key k is cancelled unless it is done
CancelTracked(us, k) ==
    IF futures[k] # NoUnit /\ ~FutureDone(us[futures[k]].state)
    THEN [us EXCEPT ![futures[k]].state = AfterCancel(@)]
    ELSE us

\* submit(task_id, func), lines 27-51; executor.submit raises RuntimeError once
\* the executor is shut down
PoolSubmit(key) ==
    /\ PoolLockFree
    /\ Len(units) < MaxUnits
    /\ IF pool_shut
       THEN /\ units' = CancelTracked(units, key)
            /\ pool_last' = PoolCalled("submit", key, "RuntimeError", NoUnit)
            /\ UNCHANGED futures
       ELSE /\ units' = Append(CancelTracked(units, key), [key |-> key, state |-> "queued"])
            /\ futures' = [futures EXCEPT ![key] = Len(units) + 1]
            /\ pool_last' = PoolCalled("submit", key, "Future", Len(units) + 1)
    /\ UNCHANGED <<pool_shut, shutdown_pc, getter, get_timeout>>
    /\ UNCHANGED <<caller, stats_pc, pool_stats>>
    /\ UNCHANGED <<sched_vars, waiter, state_vars, pq_vars, bt_vars>>

\* cancel(task_id), lines 53-69
PoolCancel(key) ==
    /\ PoolLockFree
    /\ LET f == futures[key] IN
       IF f # NoUnit /\ ~FutureDone(units[f].state)
       THEN /\ units' = [units EXCEPT ![f].state = AfterCancel(@)]
            /\ pool_last' = PoolCalled("cancel", key,
                                       IF AfterCancel(units[f].state) = "cancelled"
                                       THEN "True" ELSE "False", f)
       ELSE /\ pool_last' = PoolCalled("cancel", key, "False", f)
            /\ UNCHANGED units
    /\ UNCHANGED <<futures, pool_shut, shutdown_pc, getter, get_timeout>>
    /\ UNCHANGED <<caller, stats_pc, pool_stats>>
    /\ UNCHANGED <<sched_vars, waiter, state_vars, pq_vars, bt_vars>>

\* is_running(task_id), lines 81-83
PoolIsRunning(key) ==
    /\ PoolLockFree
    /\ LET f == futures[key] IN
       pool_last' = PoolCalled("is_running", key,
                               IF f # NoUnit /\ FutureRunning(units[f].state)
                               THEN "True" ELSE "False", f)
    /\ UNCHANGED <<futures, units, pool_shut, shutdown_pc, getter, get_timeout>>
    /\ UNCHANGED <<caller, stats_pc, pool_stats>>
    /\ UNCHANGED <<sched_vars, waiter, state_vars, pq_vars, bt_vars>>

\* is_done(task_id), lines 95-97
PoolIsDone(key) ==
    /\ PoolLockFree
    /\ LET f == futures[key] IN
       pool_last' = PoolCalled("is_done", key,
                               IF f # NoUnit /\ FutureDone(units[f].state)
                               THEN "True" ELSE "False", f)
    /\ UNCHANGED <<futures, units, pool_shut, shutdown_pc, getter, get_timeout>>
    /\ UNCHANGED <<caller, stats_pc, pool_stats>>
    /\ UNCHANGED <<sched_vars, waiter, state_vars, pq_vars, bt_vars>>

\* Future.result(timeout) of a Future in this state, when it stops waiting
PoolFutureResult(state) ==
    IF state = "done" THEN "result"
    ELSE IF state = "cancelled" THEN "CancelledError"
    ELSE "TimeoutError"

\* get_result(task_id, timeout), lines 110-115: taken with the lock; it returns
\* at once for an unknown key or a Future that is done, else blocks in
\* Future.result with the lock held, with the timeout given or with None
PoolGetResult(key) ==
    /\ PoolLockFree
    /\ LET f == futures[key] IN
       IF f = NoUnit
       THEN /\ pool_last' = PoolCalled("get_result", key, "ValueError", NoUnit)
            /\ UNCHANGED <<getter, get_timeout>>
       ELSE IF FutureDone(units[f].state)
       THEN /\ pool_last' = PoolCalled("get_result", key,
                                       PoolFutureResult(units[f].state), f)
            /\ UNCHANGED <<getter, get_timeout>>
       ELSE /\ getter' = f
            /\ get_timeout' \in BOOLEAN
            /\ pool_last' = NoPoolCall
    /\ UNCHANGED <<futures, units, pool_shut, shutdown_pc>>
    /\ UNCHANGED <<caller, stats_pc, pool_stats>>
    /\ UNCHANGED <<sched_vars, waiter, state_vars, pq_vars, bt_vars>>

\* line 115: Future.result returns or raises, and the lock is released; without
\* a timeout it waits until the Future is done or cancelled
PoolGetResultReturns ==
    /\ getter # NoUnit
    /\ get_timeout \/ FutureDone(units[getter].state)
    /\ get_timeout' = FALSE
    /\ pool_last' = PoolCalled("get_result", units[getter].key,
                               PoolFutureResult(units[getter].state), getter)
    /\ getter' = NoUnit
    /\ UNCHANGED <<futures, units, pool_shut, shutdown_pc>>
    /\ UNCHANGED <<caller, stats_pc, pool_stats>>
    /\ UNCHANGED <<sched_vars, waiter, state_vars, pq_vars, bt_vars>>

\* cleanup_completed(), lines 141-148
CleanupCompleted ==
    /\ PoolLockFree
    /\ futures' = [k \in PoolKeys |->
                      IF futures[k] # NoUnit /\ FutureDone(units[futures[k]].state)
                      THEN NoUnit ELSE futures[k]]
    /\ pool_last' = NoPoolCall
    /\ UNCHANGED <<units, pool_shut, shutdown_pc, getter, get_timeout>>
    /\ UNCHANGED <<caller, stats_pc, pool_stats>>
    /\ UNCHANGED <<sched_vars, waiter, state_vars, pq_vars, bt_vars>>

\* a free worker thread of the executor takes the oldest Future still queued
QueuedUnits == {u \in DOMAIN units : units[u].state = "queued"}
RunningUnits == {u \in DOMAIN units : units[u].state = "running"}
UnitStart(u) ==
    /\ u \in QueuedUnits
    /\ \A v \in QueuedUnits : u <= v
    /\ Cardinality(RunningUnits) < MaxWorkers
    /\ units' = [units EXCEPT ![u].state = "running"]
    /\ pool_last' = NoPoolCall
    /\ UNCHANGED <<futures, pool_shut, shutdown_pc, getter, get_timeout>>
    /\ UNCHANGED <<caller, stats_pc, pool_stats>>
    /\ UNCHANGED <<sched_vars, waiter, state_vars, pq_vars, bt_vars>>

\* the unit of work returns or raises
UnitFinish(u) ==
    /\ u \in RunningUnits
    /\ caller # [unit |-> u, pc |-> "waiting"]
    /\ units' = [units EXCEPT ![u].state = "done"]
    /\ pool_last' = NoPoolCall
    /\ UNCHANGED <<futures, pool_shut, shutdown_pc, getter, get_timeout>>
    /\ UNCHANGED <<caller, stats_pc, pool_stats>>
    /\ UNCHANGED <<sched_vars, waiter, state_vars, pq_vars, bt_vars>>

\* executor.shutdown(wait=True) returns when every worker thread has ended, which
\* is after the executor's queue is drained and the running units have finished
ExecutorJoined == QueuedUnits = {} /\ RunningUnits = {}

\* faulty variant: shutdown cancels nothing
CancelAllTracked_None(us, ks) == us

\* shutdown(wait), lines 183-186: every tracked Future that is not done is cancelled
RECURSIVE CancelAllTracked(_, _)
CancelAllTracked(us, ks) ==
    IF ks = {} THEN us
    ELSE LET k == CHOOSE x \in ks : TRUE
         IN  CancelAllTracked(CancelTracked(us, k), ks \ {k})

PoolShutdown(wait) ==
    /\ PoolLockFree
    /\ shutdown_pc = "idle"
    /\ units' = CancelAllTracked(units, PoolKeys)
    /\ shutdown_pc' = IF wait THEN "executor_wait" ELSE "executor_nowait"
    /\ pool_last' = NoPoolCall
    /\ UNCHANGED <<futures, pool_shut, getter, get_timeout>>
    /\ UNCHANGED <<caller, stats_pc, pool_stats>>
    /\ UNCHANGED <<sched_vars, waiter, state_vars, pq_vars, bt_vars>>

\* line 188: executor.shutdown(wait) sets the executor's shutdown flag
PoolShutdownExecutor ==
    /\ shutdown_pc \in {"executor_wait", "executor_nowait"}
    /\ pool_shut' = TRUE
    /\ shutdown_pc' = IF shutdown_pc = "executor_wait" THEN "join" ELSE "clear_nowait"
    /\ pool_last' = NoPoolCall
    /\ UNCHANGED <<futures, units, getter, get_timeout>>
    /\ UNCHANGED <<caller, stats_pc, pool_stats>>
    /\ UNCHANGED <<sched_vars, waiter, state_vars, pq_vars, bt_vars>>

\* line 188 with wait: it returns when the worker threads have ended
PoolShutdownJoined ==
    /\ shutdown_pc = "join"
    /\ ExecutorJoined
    /\ shutdown_pc' = "clear_wait"
    /\ pool_last' = NoPoolCall
    /\ UNCHANGED <<futures, units, pool_shut, getter, get_timeout>>
    /\ UNCHANGED <<caller, stats_pc, pool_stats>>
    /\ UNCHANGED <<sched_vars, waiter, state_vars, pq_vars, bt_vars>>

\* lines 190-191: the map is cleared and shutdown returns
PoolShutdownClear ==
    /\ PoolLockFree
    /\ shutdown_pc \in {"clear_wait", "clear_nowait"}
    /\ futures' = [k \in PoolKeys |-> NoUnit]
    /\ shutdown_pc' = "idle"
    /\ pool_last' = PoolCalled("shutdown",
                               IF shutdown_pc = "clear_wait" THEN "wait" ELSE "nowait",
                               "None", NoUnit)
    /\ UNCHANGED <<units, pool_shut, getter, get_timeout>>
    /\ UNCHANGED <<caller, stats_pc, pool_stats>>
    /\ UNCHANGED <<sched_vars, waiter, state_vars, pq_vars, bt_vars>>

PoolNext ==
    \/ \E key \in PoolKeys : PoolSubmit(key)
    \/ \E key \in PoolKeys : PoolCancel(key)
    \/ \E key \in PoolKeys : PoolIsRunning(key)
    \/ \E key \in PoolKeys : PoolIsDone(key)
    \/ \E key \in PoolKeys : PoolGetResult(key)
    \/ PoolGetResultReturns
    \/ CleanupCompleted
    \/ \E u \in DOMAIN units : UnitStart(u)
    \/ \E u \in DOMAIN units : UnitFinish(u)
    \/ \E wait \in BOOLEAN : PoolShutdown(wait)
    \/ PoolShutdownExecutor
    \/ PoolShutdownJoined
    \/ PoolShutdownClear

PoolSpec == Init /\ [][PoolNext]_vars

\* the Futures that self.futures holds
Tracked == {futures[k] : k \in PoolKeys} \ {NoUnit}

\* get_stats(), lines 161-162: the lock is taken and the Futures are counted
GetStatsTotal ==
    /\ PoolLockFree
    /\ stats_pc' = "running"
    /\ pool_stats' = [NoStats EXCEPT !.total_tasks = Cardinality(Tracked)]
    /\ pool_last' = NoPoolCall
    /\ UNCHANGED <<futures, units, pool_shut, shutdown_pc, getter, get_timeout, caller>>
    /\ UNCHANGED <<sched_vars, waiter, state_vars, pq_vars, bt_vars>>

\* line 163: the pass that counts the Futures that are running
GetStatsRunning ==
    /\ stats_pc = "running"
    /\ stats_pc' = "completed"
    /\ pool_stats' = [pool_stats EXCEPT !.running_tasks =
                          Cardinality({u \in Tracked : FutureRunning(units[u].state)})]
    /\ pool_last' = NoPoolCall
    /\ UNCHANGED <<futures, units, pool_shut, shutdown_pc, getter, get_timeout, caller>>
    /\ UNCHANGED <<sched_vars, waiter, state_vars, pq_vars, bt_vars>>

\* lines 164-171: the pass that counts the Futures that are done; the dict is
\* built and returned, and the lock released
GetStatsCompleted ==
    /\ stats_pc = "completed"
    /\ stats_pc' = "idle"
    /\ LET completed_tasks == Cardinality({u \in Tracked : FutureDone(units[u].state)})
       IN  pool_stats' = [pool_stats EXCEPT
                            !.completed_tasks = completed_tasks,
                            !.pending_tasks = pool_stats.total_tasks
                                              - pool_stats.running_tasks
                                              - completed_tasks]
    /\ pool_last' = PoolCalled("get_stats", "none", "dict", NoUnit)
    /\ UNCHANGED <<futures, units, pool_shut, shutdown_pc, getter, get_timeout, caller>>
    /\ UNCHANGED <<sched_vars, waiter, state_vars, pq_vars, bt_vars>>

\* The pool read by get_stats while its worker threads start and finish units
\* (the worker threads change a Future without ThreadPool.lock).
PoolStatsNext ==
    \/ \E key \in PoolKeys : PoolSubmit(key)
    \/ \E key \in PoolKeys : PoolCancel(key)
    \/ CleanupCompleted
    \/ \E u \in DOMAIN units : UnitStart(u)
    \/ \E u \in DOMAIN units : UnitFinish(u)
    \/ GetStatsTotal
    \/ GetStatsRunning
    \/ GetStatsCompleted

PoolStatsSpec == Init /\ [][PoolStatsNext]_vars

\* A unit of work that uses the pool it runs in: the function handed to submit
\* calls is_done(key) of the same pool, which takes ThreadPool.lock (line 95)
UnitCallsPool(u) ==
    /\ u \in RunningUnits
    /\ caller = NoCaller
    /\ caller' = [unit |-> u, pc |-> "waiting"]
    /\ pool_last' = NoPoolCall
    /\ UNCHANGED <<futures, units, pool_shut, shutdown_pc, getter, get_timeout>>
    /\ UNCHANGED <<stats_pc, pool_stats>>
    /\ UNCHANGED <<sched_vars, waiter, state_vars, pq_vars, bt_vars>>

\* is_done(key), lines 95-97, called by the unit: it gets the lock and returns
UnitPoolCallReturns ==
    /\ caller.pc = "waiting"
    /\ PoolLockFree
    /\ caller' = [caller EXCEPT !.pc = "returned"]
    /\ LET key == units[caller.unit].key
           f == futures[key] IN
       pool_last' = PoolCalled("is_done", key,
                               IF f # NoUnit /\ FutureDone(units[f].state)
                               THEN "True" ELSE "False", f)
    /\ UNCHANGED <<futures, units, pool_shut, shutdown_pc, getter, get_timeout>>
    /\ UNCHANGED <<stats_pc, pool_stats>>
    /\ UNCHANGED <<sched_vars, waiter, state_vars, pq_vars, bt_vars>>

\* The pool with units that call it, and threads that wait for results.  Every
\* thread that can go on does so: a worker thread running a unit, the unit's call
\* once the lock is free, and get_result once its Future is done or its timeout
\* has passed.
PoolCallNext ==
    \/ \E key \in PoolKeys : PoolSubmit(key)
    \/ \E key \in PoolKeys : PoolGetResult(key)
    \/ PoolGetResultReturns
    \/ \E u \in DOMAIN units : UnitStart(u)
    \/ \E u \in DOMAIN units : UnitFinish(u)
    \/ \E u \in DOMAIN units : UnitCallsPool(u)
    \/ UnitPoolCallReturns

PoolCallFairSpec ==
    /\ Init /\ [][PoolCallNext]_vars
    /\ \A u \in 1..MaxUnits : WF_vars(UnitFinish(u))
    /\ WF_vars(UnitPoolCallReturns)
    /\ WF_vars(PoolGetResultReturns)

\* a worker thread of the executor that runs a unit keeps running it
PoolFairSpec == PoolSpec /\ \A u \in 1..MaxUnits : WF_vars(UnitFinish(u))

\* ------------------------------------------------------- BaseTask: steps
\* Every block under `with self.lock` that does not block is one step, enabled
\* when the lock is free; stop() keeps the lock while it waits in Thread.join.
BtCalled(b, op, ret) == [task |-> b, op |-> op, ret |-> ret]

\* start(), lines 81-101
BaseTaskStart(b) ==
    /\ bt_lock[b] = "none"
    /\ IF bt_state[b] # "idle"
       THEN /\ bt_last' = BtCalled(b, "start", "False")
            /\ UNCHANGED <<bt_state, stop_event, task_thread>>
       ELSE /\ bt_state' = [bt_state EXCEPT ![b] = "initializing"]
            /\ stop_event' = [stop_event EXCEPT ![b] = FALSE]
            /\ task_thread' = [task_thread EXCEPT ![b] = [pc |-> "begin", outcome |-> "none"]]
            /\ bt_last' = BtCalled(b, "start", "True")
    /\ UNCHANGED <<bt_result, bt_lock>>
    /\ UNCHANGED <<sched_vars, waiter, state_vars, pool_vars, pq_vars>>

\* stop(timeout), lines 119-128: up to the call of Thread.join, which blocks with
\* the lock held; without a live thread the task is cancelled at once (134-138)
BaseTaskStop(b) ==
    /\ bt_lock[b] = "none"
    /\ IF bt_state[b] \notin {"running", "paused"}
       THEN /\ bt_last' = BtCalled(b, "stop", "True")
            /\ UNCHANGED <<bt_state, bt_result, stop_event, bt_lock>>
       ELSE /\ stop_event' = [stop_event EXCEPT ![b] = TRUE]
            /\ IF IsAlive(task_thread[b])
               THEN /\ bt_lock' = [bt_lock EXCEPT ![b] = "stop"]
                    /\ bt_last' = NoBtCall
                    /\ UNCHANGED <<bt_state, bt_result>>
               ELSE /\ bt_state' = [bt_state EXCEPT ![b] = "cancelled"]
                    /\ bt_result' = [bt_result EXCEPT ![b] = "cancelled"]
                    /\ bt_last' = BtCalled(b, "stop", "True")
                    /\ UNCHANGED bt_lock
    /\ UNCHANGED task_thread
    /\ UNCHANGED <<sched_vars, waiter, state_vars, pool_vars, pq_vars>>

\* the thread cannot go on before the lock is free
WaitsForLock(th) == th.pc \in {"begin", "set_result", "set_failed"}

\* lines 128-138: join(timeout) returns when the thread has ended, or by its
\* timeout when the thread waits for the lock that stop() itself holds; a thread
\* that runs execute() or is leaving _run_task goes on before the timeout
BaseTaskStopJoinReturns(b) ==
    /\ bt_lock[b] = "stop"
    /\ ~IsAlive(task_thread[b]) \/ WaitsForLock(task_thread[b])
    /\ IF IsAlive(task_thread[b])
       THEN /\ bt_last' = BtCalled(b, "stop", "False")
            /\ UNCHANGED <<bt_state, bt_result>>
       ELSE /\ bt_state' = [bt_state EXCEPT ![b] = "cancelled"]
            /\ bt_result' = [bt_result EXCEPT ![b] = "cancelled"]
            /\ bt_last' = BtCalled(b, "stop", "True")
    /\ bt_lock' = [bt_lock EXCEPT ![b] = "none"]
    /\ UNCHANGED <<stop_event, task_thread>>
    /\ UNCHANGED <<sched_vars, waiter, state_vars, pool_vars, pq_vars>>

\* pause(), lines 142-145
BaseTaskPause(b) ==
    /\ bt_lock[b] = "none"
    /\ bt_state' = [bt_state EXCEPT ![b] = IF @ = "running" THEN "paused" ELSE @]
    /\ bt_last' = BtCalled(b, "pause", "None")
    /\ UNCHANGED <<bt_result, stop_event, task_thread, bt_lock>>
    /\ UNCHANGED <<sched_vars, waiter, state_vars, pool_vars, pq_vars>>

\* resume(), lines 149-152
BaseTaskResume(b) ==
    /\ bt_lock[b] = "none"
    /\ bt_state' = [bt_state EXCEPT ![b] = IF @ = "paused" THEN "running" ELSE @]
    /\ bt_last' = BtCalled(b, "resume", "None")
    /\ UNCHANGED <<bt_result, stop_event, task_thread, bt_lock>>
    /\ UNCHANGED <<sched_vars, waiter, state_vars, pool_vars, pq_vars>>

\* _run_task, lines 234-235
RunTaskBegin(b) ==
    /\ task_thread[b].pc = "begin"
    /\ bt_lock[b] = "none"
    /\ bt_state' = [bt_state EXCEPT ![b] = "running"]
    /\ task_thread' = [task_thread EXCEPT ![b].pc = "execute"]
    /\ bt_last' = NoBtCall
    /\ UNCHANGED <<bt_result, stop_event, bt_lock>>
    /\ UNCHANGED <<sched_vars, waiter, state_vars, pool_vars, pq_vars>>

\* how execute() can end: a result with success, one without, or an exception
ExecuteOutcomes == {"success", "failure", "raise"}

\* line 239: execute() ends, of itself or because should_stop() is true
Execute(b, outcome) ==
    /\ task_thread[b].pc = "execute"
    /\ task_thread' = [task_thread EXCEPT ![b] =
                          [pc |-> IF outcome = "raise" THEN "set_failed" ELSE "set_result",
                           outcome |-> outcome]]
    /\ bt_last' = NoBtCall
    /\ UNCHANGED <<bt_state, bt_result, stop_event, bt_lock>>
    /\ UNCHANGED <<sched_vars, waiter, state_vars, pool_vars, pq_vars>>

\* lines 242-251: the result is recorded unless the stop event is set
RunTaskSetResult(b) ==
    /\ task_thread[b].pc = "set_result"
    /\ bt_lock[b] = "none"
    /\ IF ~stop_event[b]
       THEN /\ bt_state' = [bt_state EXCEPT ![b] =
                               IF task_thread[b].outcome = "success"
                               THEN "completed" ELSE "failed"]
            /\ bt_result' = [bt_result EXCEPT ![b] = task_thread[b].outcome]
       ELSE UNCHANGED <<bt_state, bt_result>>
    /\ task_thread' = [task_thread EXCEPT ![b].pc = "exiting"]
    /\ bt_last' = NoBtCall
    /\ UNCHANGED <<stop_event, bt_lock>>
    /\ UNCHANGED <<sched_vars, waiter, state_vars, pool_vars, pq_vars>>

\* lines 253-259: the exception of execute() is recorded
RunTaskSetFailed(b) ==
    /\ task_thread[b].pc = "set_failed"
    /\ bt_lock[b] = "none"
    /\ bt_state' = [bt_state EXCEPT ![b] = "failed"]
    /\ bt_result' = [bt_result EXCEPT ![b] = "failure"]
    /\ task_thread' = [task_thread EXCEPT ![b].pc = "exiting"]
    /\ bt_last' = NoBtCall
    /\ UNCHANGED <<stop_event, bt_lock>>
    /\ UNCHANGED <<sched_vars, waiter, state_vars, pool_vars, pq_vars>>

\* _run_task returns and the thread ends
RunTaskEnds(b) ==
    /\ task_thread[b].pc = "exiting"
    /\ task_thread' = [task_thread EXCEPT ![b].pc = "ended"]
    /\ bt_last' = NoBtCall
    /\ UNCHANGED <<bt_state, bt_result, stop_event, bt_lock>>
    /\ UNCHANGED <<sched_vars, waiter, state_vars, pool_vars, pq_vars>>

BaseTaskNext ==
    \E b \in BaseTasks :
        \/ BaseTaskStart(b)
        \/ BaseTaskStop(b)
        \/ BaseTaskStopJoinReturns(b)
        \/ BaseTaskPause(b)
        \/ BaseTaskResume(b)
        \/ RunTaskBegin(b)
        \/ \E outcome \in ExecuteOutcomes : Execute(b, outcome)
        \/ RunTaskSetResult(b)
        \/ RunTaskSetFailed(b)
        \/ RunTaskEnds(b)

BaseTaskSpec == Init /\ [][BaseTaskNext]_vars

\* ------------------------------------------------------- PriorityQueue: steps
PQCalled(op, ret, val) == [op |-> op, ret |-> ret, val |-> val]

\* the default comparator, line 20
Comparator(a, b) == a < b

\* self._heap[i], and the exchange of two places of the list
At(h, i) == h[i + 1]
Swap(h, i, j) == [h EXCEPT ![i + 1] = h[j + 1], ![j + 1] = h[i + 1]]

\* faulty variant: the item moves up one level only
FloatUp_Once(h, item_index) ==
    IF item_index = 0 THEN h
    ELSE LET parent == (item_index - 1) \div 2
         IN  IF ~Comparator(At(h, parent), At(h, item_index))
             THEN Swap(h, parent, item_index)
             ELSE h

\* _float_up, lines 31-40
RECURSIVE FloatUp(_, _)
FloatUp(h, item_index) ==
    IF item_index = 0 THEN h
    ELSE LET parent == (item_index - 1) \div 2
         IN  IF ~Comparator(At(h, parent), At(h, item_index))
             THEN FloatUp(Swap(h, parent, item_index), parent)
             ELSE h

\* lines 43 and 44 of _sink_down
LeftChild(item_index) == 2 * item_index + 1
RightChild(item_index) == 2 * item_index + 1

\* _smaller_child, lines 55-60
SmallerChild(h, sz, left, right) ==
    IF left > sz - 1 THEN NoChild
    ELSE IF left = sz - 1 THEN left
    ELSE IF Comparator(At(h, left), At(h, right)) THEN left ELSE right

\* _sink_down, lines 42-53
RECURSIVE SinkDown(_, _, _)
SinkDown(h, sz, item_index) ==
    LET smaller_child == SmallerChild(h, sz, LeftChild(item_index), RightChild(item_index))
    IN  IF smaller_child = NoChild THEN h
        ELSE IF ~Comparator(At(h, item_index), At(h, smaller_child))
        THEN SinkDown(Swap(h, item_index, smaller_child), sz, smaller_child)
        ELSE h

\* push(item), lines 68-70
Push(item) ==
    /\ Len(heap) < MaxHeap
    /\ size' = size + 1
    /\ heap' = FloatUp(Append(heap, item), size' - 1)
    /\ popped' = <<>>
    /\ pq_last' = PQCalled("push", "None", NoVal)
    /\ UNCHANGED <<sched_vars, waiter, state_vars, pool_vars, bt_vars>>

\* faulty variant: an empty queue answers None
RaiseIndexError_ReturnsNone(op) == PQCalled(op, "None", NoVal)

\* lines 82 and 95
RaiseIndexError(op) == PQCalled(op, "IndexError", NoVal)

\* top(), lines 81-83; reading place 0 of an empty list raises IndexError as well
Top ==
    /\ pq_last' = IF size = 0 \/ heap = <<>>
                  THEN RaiseIndexError("top")
                  ELSE PQCalled("top", "item", At(heap, 0))
    /\ UNCHANGED <<heap, size, popped>>
    /\ UNCHANGED <<sched_vars, waiter, state_vars, pool_vars, bt_vars>>

\* line 99
SizeAfterPop(sz) == sz - 1

\* pop(), lines 94-101; reading place 0 of an empty list raises IndexError as well
Pop ==
    IF size = 0 \/ heap = <<>>
    THEN /\ pq_last' = RaiseIndexError("pop")
         /\ UNCHANGED <<heap, size, popped>>
         /\ UNCHANGED <<sched_vars, waiter, state_vars, pool_vars, bt_vars>>
    ELSE LET top == At(heap, 0)
             moved == [heap EXCEPT ![1] = At(heap, size - 1)]
             shorter == SubSeq(moved, 1, Len(moved) - 1)
         IN  /\ size' = SizeAfterPop(size)
             /\ heap' = SinkDown(shorter, size', 0)
             /\ popped' = Append(popped, top)
             /\ pq_last' = PQCalled("pop", "item", top)
             /\ UNCHANGED <<sched_vars, waiter, state_vars, pool_vars, bt_vars>>

PQNext ==
    \/ \E item \in Items : Push(item)
    \/ Top
    \/ Pop

PQSpec == Init /\ [][PQNext]_vars

\* a new queue that is only pushed to and read
PushNext ==
    \/ \E item \in Items : Push(item)
    \/ Top

PushSpec == Init /\ [][PushNext]_vars

\* ------------------------------------------------------- StateManager: steps
\* _state_lock is re-entrant and held for the whole of set_state, callback included.
\* While `calls` is not empty the thread of the outermost call holds the lock and
\* runs the callback of the innermost call: every step taken then is a step of
\* that callback.  With `calls` empty the lock is free and any thread may call.

Returned(op, new, force, raised, ret) ==
    [op |-> op, new |-> new, force |-> force, raised |-> raised, ret |-> ret]

\* faulty variant: the flag is left as the call set it
FlagAfterFinally_Kept(flag) == flag

\* line 91, the finally block: self._is_transitioning = False
FlagAfterFinally(flag) == FALSE

\* faulty variant: the methods do not take the lock
CanAcquire_Unlocked(t) == TRUE

\* `with self._state_lock` (lines 41, 47, 61): the lock is re-entrant, thread t
\* enters when the lock is free or its own
CanAcquire(t) == state_lock \in {NoThread, t}

\* faulty variant: the previous state is not recorded
PreviousState_Kept(old_state, prev) == prev

\* line 75: self._previous_state = old_state
PreviousState(old_state, prev) == old_state

\* history: every call in progress learns that a call made from its callback got
\* past the checks of lines 62-68
NestedAccepted(cs) == [j \in DOMAIN cs |-> [cs[j] EXCEPT !.nested = TRUE]]

\* lines 62-68: the call is rejected before anything is written
Rejected(new, force) ==
    \/ is_transitioning /\ ~force
    \/ ~IsValidTransition(current_state, new) /\ ~force

\* set_state(new, force), lines 61-82, up to the call of the callback of `new`;
\* without a callback the call returns True in the same step (finally: line 91).
\* op names the public operation: "set_state" or "emergency_stop".
SetStateCallBy(t, op, new, force) ==
    /\ CanAcquire(t)
    /\ ncalls < MaxCalls
    /\ ncalls' = ncalls + 1
    /\ IF Rejected(new, force)
       THEN /\ returned' = Returned(op, new, force, FALSE, "False")
            /\ UNCHANGED <<current_state, previous_state, is_transitioning, calls,
                           state_lock>>
       ELSE /\ previous_state' = PreviousState(current_state, previous_state)
            /\ current_state' = new
            /\ IF state_change_callbacks[new] = NoCallback
               THEN /\ is_transitioning' = FlagAfterFinally(TRUE)
                    /\ returned' = Returned(op, new, force, FALSE, "True")
                    /\ calls' = NestedAccepted(calls)
                    /\ UNCHANGED state_lock
               ELSE /\ Len(calls) < MaxDepth
                    /\ is_transitioning' = TRUE
                    /\ calls' = Append(NestedAccepted(calls),
                                       [thread |-> t,
                                        op |-> op, new |-> new, force |-> force,
                                        old_state |-> current_state,
                                        prev |-> previous_state,
                                        nested |-> FALSE,
                                        callback |-> state_change_callbacks[new]])
                    /\ state_lock' = t
                    /\ returned' = NoReturn
    /\ reader' = NoRead
    /\ UNCHANGED <<state_change_callbacks, state_data>>
    /\ UNCHANGED <<sched_vars, waiter, pool_vars, pq_vars, bt_vars>>

\* a call of set_state by any thread that can take the lock
SetStateCall(op, new, force) == \E t \in Threads : SetStateCallBy(t, op, new, force)

SetState(new, force) == SetStateCall("set_state", new, force)

\* emergency_stop(), lines 219-222; the value of set_state is dropped
EmergencyStop == SetStateCall("emergency_stop", EMERGENCY_STOP, TRUE)

\* faulty variant: the state is not rolled back
RolledBack_Kept(old_state, tentative) == tentative

\* line 87: self._current_state = old_state
RolledBack(old_state, tentative) == old_state

\* the callback of the innermost call returns: lines 82 and 91
CallbackReturns ==
    /\ calls # <<>>
    /\ LET f == calls[Len(calls)] IN
       /\ f.callback = "returns"
       /\ returned' = Returned(f.op, f.new, f.force, FALSE, "True")
    /\ is_transitioning' = FlagAfterFinally(is_transitioning)
    /\ calls' = SubSeq(calls, 1, Len(calls) - 1)
    /\ state_lock' = IF Len(calls) = 1 THEN NoThread ELSE state_lock
    /\ reader' = NoRead
    /\ UNCHANGED <<current_state, previous_state, state_change_callbacks, state_data,
                   ncalls>>
    /\ UNCHANGED <<sched_vars, waiter, pool_vars, pq_vars, bt_vars>>

\* the callback of the innermost call raises: lines 84-88 and 91
CallbackRaises ==
    /\ calls # <<>>
    /\ LET f == calls[Len(calls)] IN
       /\ f.callback = "raises"
       /\ current_state' = RolledBack(f.old_state, current_state)
       /\ returned' = Returned(f.op, f.new, f.force, TRUE, "False")
    /\ is_transitioning' = FlagAfterFinally(is_transitioning)
    /\ calls' = SubSeq(calls, 1, Len(calls) - 1)
    /\ state_lock' = IF Len(calls) = 1 THEN NoThread ELSE state_lock
    /\ reader' = NoRead
    /\ UNCHANGED <<previous_state, state_change_callbacks, state_data, ncalls>>
    /\ UNCHANGED <<sched_vars, waiter, pool_vars, pq_vars, bt_vars>>

\* register_state_callback(state, callback), lines 154-155
RegisterStateCallback(state, kind) ==
    /\ state_change_callbacks' = [state_change_callbacks EXCEPT ![state] = kind]
    /\ returned' = NoReturn
    /\ reader' = NoRead
    /\ UNCHANGED <<current_state, previous_state, is_transitioning, state_data, calls,
                   ncalls, state_lock>>
    /\ UNCHANGED <<sched_vars, waiter, pool_vars, pq_vars, bt_vars>>

\* set_state_data(key, value), lines 166-167
SetStateData(key, value) ==
    /\ state_data' = [state_data EXCEPT ![key] = value]
    /\ returned' = NoReturn
    /\ reader' = NoRead
    /\ UNCHANGED <<current_state, previous_state, is_transitioning,
                   state_change_callbacks, calls, ncalls, state_lock>>
    /\ UNCHANGED <<sched_vars, waiter, pool_vars, pq_vars, bt_vars>>

\* clear_state_data(), lines 185-186
ClearStateData ==
    /\ state_data' = [k \in DataKeys |-> NoData]
    /\ returned' = NoReturn
    /\ reader' = NoRead
    /\ UNCHANGED <<current_state, previous_state, is_transitioning,
                   state_change_callbacks, calls, ncalls, state_lock>>
    /\ UNCHANGED <<sched_vars, waiter, pool_vars, pq_vars, bt_vars>>

\* the property current_state read by thread t, lines 38-42
ReadCurrentState(t) ==
    /\ CanAcquire(t)
    /\ reader' = [thread |-> t, value |-> current_state]
    /\ returned' = NoReturn
    /\ UNCHANGED <<current_state, previous_state, is_transitioning,
                   state_change_callbacks, state_data, calls, ncalls, state_lock>>
    /\ UNCHANGED <<sched_vars, waiter, pool_vars, pq_vars, bt_vars>>

StateNext ==
    \/ \E new \in RobotState, force \in BOOLEAN : SetState(new, force)
    \/ \E t \in Threads : ReadCurrentState(t)
    \/ EmergencyStop
    \/ CallbackReturns
    \/ CallbackRaises
    \/ \E state \in CallbackStates, kind \in CallbackKinds :
          RegisterStateCallback(state, kind)
    \/ \E key \in DataKeys, value \in DataValues : SetStateData(key, value)
    \/ ClearStateData

StateSpec == Init /\ [][StateNext]_vars

\* the state a thread other than the one inside set_state can read: the state
\* before the outermost call in progress (readers wait for the lock, lines 41-42)
CommittedState == IF calls = <<>> THEN current_state ELSE calls[1].old_state

\* ------------------------------------------------------- derived
\* how often task.func of Task object o has been called: once per Future that
\* a worker started to run
CallsOf(o) ==
    Cardinality({n \in 1..Len(futs[o]) : futs[o][n].pc \notin {"queued", "cancelled"}})

StatusOf(i) == IF tasks[i] = NoTask THEN "unknown" ELSE task[tasks[i]].status

\* ------------------------------------------------------- claims

\* C1: a task is marked RUNNING only in a step in which every task it lists as a
\* dependency is registered and COMPLETED, before and after the step; so B (HIGH,
\* depending on A) is never marked RUNNING while A is not COMPLETED.
C1_RunningOnlyAfterDependencies ==
    [][\A o \in DOMAIN task :
          (task[o].status # RUNNING /\ task'[o].status = RUNNING) =>
              \A d \in task[o].dependencies :
                  /\ StatusOf(d) = COMPLETED
                  /\ StatusOf(d)' = COMPLETED]_vars

\* C1 witness: a HIGH task is RUNNING whose dependency is a NORMAL task
C1_Witness ==
    \E o \in DOMAIN task :
        /\ task[o].status = RUNNING
        /\ task[o].priority = HIGH
        /\ \E d \in task[o].dependencies :
              tasks[d] # NoTask /\ tasks[d] # o /\ task[tasks[d]].priority = NORMAL

\* C3: stop(wait=True) returns once the task bodies have finished: while it waits
\* in executor.shutdown, either the executor has drained or a worker can go on.
C3_StopWaitTerminates ==
    stop_pc = "shutdown" => ENABLED (Worker \/ StopShutdownReturns)

\* C7: cancel_task of a PENDING task returns True, marks it CANCELLED and adds one
\* to cancelled_tasks; from then on the task is never marked RUNNING and its
\* function is never called.
C7_CancelPendingNeverRuns ==
    [][/\ \A i \in Ids :
             (last'.op = "cancel" /\ last'.arg = i /\ StatusOf(i) = PENDING) =>
                 /\ last'.ret = "True"
                 /\ task'[tasks[i]].status = CANCELLED
                 /\ hist'[tasks[i]]
                 /\ stats'.cancelled_tasks = stats.cancelled_tasks + 1
       /\ \A o \in DOMAIN task :
             hist[o] => /\ task'[o].status = CANCELLED
                        /\ CallsOf(o)' = CallsOf(o)]_vars

\* C7 witness: a task was cancelled while PENDING after the dispatch loop had
\* already popped its queue entry
C7_Witness ==
    \E o \in DOMAIN task : \E t \in DOMAIN loops :
        /\ hist[o]
        /\ loops[t].pc = "have"
        /\ tasks[loops[t].item[3]] = o

\* C8: submit_task of a task naming a dependency id that is not registered raises
\* ValueError and leaves the registry, the queue and the counters as they were.
C8_UnknownDependencyRejected ==
    [][(last'.op = "submit" /\ is_running
           /\ \E d \in last'.deps : tasks[d] = NoTask) =>
          /\ last'.ret = "ValueError"
          /\ UNCHANGED <<tasks, task, task_queue, stats>>]_vars

\* C8 witness: a submission was rejected for its dependency while another task
\* was registered
C8_Witness ==
    /\ last.op = "submit"
    /\ last.ret = "ValueError"
    /\ \E i \in Ids : tasks[i] # NoTask

\* C9: submit_task while the scheduler is not running raises RuntimeError and
\* stores nothing.
C9_NotRunningRejected ==
    [][(last'.op = "submit" /\ ~is_running) =>
          /\ last'.ret = "RuntimeError"
          /\ UNCHANGED <<tasks, task, task_queue, stats>>]_vars

\* C9 witness: a submission after stop() was rejected
C9_Witness ==
    /\ last.op = "submit"
    /\ last.ret = "RuntimeError"
    /\ shut

\* C10 as claimed: every change of a task's status is PENDING->RUNNING,
\* RUNNING->COMPLETED, RUNNING->FAILED, RUNNING->CANCELLED, or FAILED->PENDING
\* with retry_count < max_retries.
ClaimedTransitions ==
    {<<PENDING, RUNNING>>, <<RUNNING, COMPLETED>>, <<RUNNING, FAILED>>,
     <<RUNNING, CANCELLED>>, <<FAILED, PENDING>>}

StatusChangesWithin(allowed) ==
    \A o \in DOMAIN task :
        task'[o].status # task[o].status =>
            /\ <<task[o].status, task'[o].status>> \in allowed
            /\ (task[o].status = FAILED => task[o].retry_count < task[o].max_retries)

C10_AllowedTransitionsClaimed == [][StatusChangesWithin(ClaimedTransitions)]_vars

\* C10 amended: the changes are those claimed and PENDING->CANCELLED, made by
\* cancel_task and by stop().
C10_AllowedTransitions ==
    [][StatusChangesWithin(ClaimedTransitions \cup {<<PENDING, CANCELLED>>})]_vars

\* C10 witness: a task that failed, was set PENDING again and then cancelled
C10_Witness ==
    \E o \in DOMAIN task : task[o].status = CANCELLED /\ task[o].retry_count > 0

\* a dependency-free task that is registered, PENDING and has an entry in the queue
Ready(o) ==
    /\ task[o].status = PENDING
    /\ task[o].dependencies = {}
    /\ tasks[task[o].id] = o
    /\ \E k \in 1..Len(task_queue) : task_queue[k][3] = task[o].id

\* the dispatch thread t pops an entry in this step
Pops(t) == loops[t].pc = "get" /\ loops'[t].pc = "have"

\* C4: when the dispatch loop takes its next candidate while two dependency-free
\* tasks of different priority are PENDING in the queue, it does not take the one
\* of lower priority, and a task is marked RUNNING only as the candidate taken;
\* so the one of higher priority is marked RUNNING first.
C4_HigherPriorityFirst ==
    [][/\ \A t \in DOMAIN loops :
             Pops(t) =>
                 \A h \in DOMAIN task, l \in DOMAIN task :
                     (Ready(h) /\ Ready(l) /\ task[h].priority > task[l].priority)
                         => tasks[loops'[t].item[3]] # l
       /\ \A l \in DOMAIN task :
             (task[l].status # RUNNING /\ task'[l].status = RUNNING) =>
                 \E t \in DOMAIN loops :
                     loops[t].pc = "have" /\ tasks[loops[t].item[3]] = l]_vars

\* C4 witness: the loop holds the entry of a task of higher priority that was
\* submitted after a task of lower priority that still waits in the queue
C4_Witness ==
    \E h \in DOMAIN task, l \in DOMAIN task, t \in DOMAIN loops :
        /\ l < h
        /\ task[h].priority > task[l].priority
        /\ task[h].dependencies = {} /\ task[h].status = PENDING
        /\ Ready(l)
        /\ loops[t].pc = "have" /\ tasks[loops[t].item[3]] = h

\* C5: when the dispatch loop takes its next candidate while two dependency-free
\* tasks of the same priority are PENDING in the queue, neither retried yet and
\* constructed at different times, it does not take the one submitted later
\* (Task objects are numbered in the order of their submit_task calls).
C5_FifoWithinTier ==
    [][\A t \in DOMAIN loops :
          Pops(t) =>
              \A a \in DOMAIN task, b \in DOMAIN task :
                  (Ready(a) /\ Ready(b) /\ a < b
                      /\ task[a].priority = task[b].priority
                      /\ task[a].created_at # task[b].created_at
                      /\ task[a].retry_count = 0 /\ task[b].retry_count = 0)
                      => tasks[loops'[t].item[3]] # b]_vars

\* a registered PENDING task in the queue whose dependencies are not all COMPLETED
Blocked(b) ==
    /\ task[b].status = PENDING
    /\ ~AreDependenciesCompleted(b)
    /\ tasks[task[b].id] = b
    /\ \E k \in 1..Len(task_queue) : task_queue[k][3] = task[b].id

\* C2: a PENDING task without dependencies that is in the queue of a running
\* scheduler with a free worker, together with a task of higher priority whose
\* dependencies are unmet, is eventually marked RUNNING (unless the scheduler
\* stops or the workers are all busy).
C2_BlockedHeadDoesNotStall ==
    \A o \in 1..MaxTasks :
        (/\ o \in DOMAIN task /\ Ready(o) /\ is_running /\ RunningWorkers < MaxWorkers
         /\ \E b \in DOMAIN task : Blocked(b) /\ task[b].priority > task[o].priority)
            ~> (o \in DOMAIN task /\ (\/ task[o].status # PENDING
                                       \/ ~is_running
                                       \/ RunningWorkers >= MaxWorkers))

\* C6: a task whose body has failed and never succeeds is in the end executed
\* max_retries + 1 times and is then FAILED with retry_count = max_retries.
Succeeded(o) == \E n \in 1..Len(futs[o]) : futs[o][n].res = "ok"
Exhausted(o) ==
    /\ task[o].status = FAILED
    /\ task[o].retry_count = task[o].max_retries
    /\ CallsOf(o) = task[o].max_retries + 1
C6_RetriedUntilExhausted ==
    \A o \in 1..MaxTasks :
        (o \in DOMAIN task /\ CallsOf(o) >= 1)
            ~> (o \in DOMAIN task /\ (Succeeded(o) \/ Exhausted(o)))

\* ------------------------------------------------------- claims: StateManager
\* In a step in which a set_state call returns: the state and the previous state
\* when that call began (kept by the call in progress if the call ran a callback).
CallFrom ==
    IF Len(calls') < Len(calls) THEN calls[Len(calls)].old_state ELSE current_state
CallPrev ==
    IF Len(calls') < Len(calls) THEN calls[Len(calls)].prev ELSE previous_state

\* C11: a set_state without force leaves a current state other than the one it
\* began in only if (current, new) is in the table; if it is not in the table the
\* call returns False with the state unchanged.  set_state(shutdown) from idle
\* succeeds, and every set_state without force from shutdown fails with the state
\* still shutdown.
C11_UnforcedFollowsTable ==
    [][(returned'.op = "set_state" /\ ~returned'.force) =>
          /\ current_state' # CallFrom => returned'.new \in ValidTransitions[CallFrom]
          /\ returned'.new \notin ValidTransitions[CallFrom] =>
                 returned'.ret = "False" /\ current_state' = CallFrom
          /\ (current_state = IDLE /\ returned'.new = SHUTDOWN /\ calls = <<>>) =>
                 returned'.ret = "True" /\ current_state' = SHUTDOWN
          /\ CallFrom = SHUTDOWN =>
                 returned'.ret = "False" /\ current_state' = SHUTDOWN]_vars

\* C11 witness: after set_state(shutdown) from idle, a set_state without force
\* has just been rejected
C11_Witness ==
    /\ returned.op = "set_state" /\ ~returned.force /\ returned.ret = "False"
    /\ current_state = SHUTDOWN /\ previous_state = IDLE /\ calls = <<>>

\* C12: once the state other threads can read is shutdown, it is shutdown after
\* every later step, whatever operation is called.
C12_ShutdownTerminal ==
    [][CommittedState = SHUTDOWN => CommittedState' = SHUTDOWN]_vars

\* C13: when emergency_stop() returns after a call made in a state other than
\* shutdown, the current state is emergency_stop and previous_state is the state
\* the call began in, whatever callbacks are registered.
C13_EmergencyStopSucceeds ==
    [][(returned'.op = "emergency_stop" /\ CallFrom # SHUTDOWN) =>
          /\ current_state' = EMERGENCY_STOP
          /\ previous_state' = CallFrom]_vars

\* C14: a set_state call whose callback raises returns False, not the exception,
\* and leaves the current state the one the call began in.
C14_CallbackFailureRollsBack ==
    [][returned'.raised =>
          /\ returned'.ret = "False"
          /\ current_state' = CallFrom]_vars

\* C14 witness: with a raising callback registered for line_following,
\* set_state(line_following) called in idle has just returned False
C14_Witness ==
    /\ returned.op = "set_state" /\ returned.raised /\ ~returned.force
    /\ returned.new = LINE_FOLLOWING /\ returned.ret = "False"
    /\ current_state = IDLE /\ previous_state = IDLE

\* ------------------------------------------------------- claims: TaskScheduler
\* the task has completed: COMPLETED, or FAILED with no retry left
Completed(o) ==
    \/ task[o].status = COMPLETED
    \/ task[o].status = FAILED /\ task[o].retry_count >= task[o].max_retries

\* C15: wait_for_task returns True only for a registered task that has completed
\* (COMPLETED, or FAILED with no retry left); for an unknown id and for a
\* cancelled task it returns False.
C15_WaitReportsCompletion ==
    [][last'.op = "wait" =>
          LET o == tasks[last'.arg] IN
          /\ last'.ret = "True" => o # NoTask /\ Completed(o)
          /\ (o = NoTask \/ task[o].status = CANCELLED) => last'.ret = "False"]_vars

\* C16: cancel_task returns True exactly when the call changed the task's status
\* to CANCELLED.  For a RUNNING task that is only when its Future had not started,
\* and a cancelled Future never runs; when the body is executing the call returns
\* False and changes nothing.  For an unknown id and for a COMPLETED, FAILED or
\* CANCELLED task it returns False and changes no status and no counter.
C16_CancelReturnValue ==
    [][/\ last'.op = "cancel" =>
             LET o == tasks[last'.arg] IN
             /\ last'.ret \in {"True", "False"}
             /\ last'.ret = "True" <=>
                    (o # NoTask /\ task[o].status # CANCELLED
                                /\ task'[o].status = CANCELLED)
             /\ last'.ret = "False" => UNCHANGED <<task, futs, stats>>
             /\ (o # NoTask /\ task[o].status = RUNNING /\ last'.ret = "True") =>
                    /\ task[o].future # 0
                    /\ futs[o][task[o].future].pc = "queued"
                    /\ futs'[o][task[o].future].pc = "cancelled"
             /\ (o # NoTask /\ task[o].status = RUNNING /\ task[o].future # 0
                            /\ futs[o][task[o].future].pc \in WorkerPcs) =>
                    last'.ret = "False"
             /\ (o = NoTask \/ task[o].status \in {COMPLETED, FAILED, CANCELLED}) =>
                    last'.ret = "False"
       /\ \A o \in DOMAIN futs : \A n \in DOMAIN futs[o] :
             futs[o][n].pc = "cancelled" => futs'[o][n].pc = "cancelled"]_vars

\* C16 witness: cancel_task has just returned True for a task that was RUNNING
\* with its Future still queued
C16_Witness ==
    /\ last.op = "cancel" /\ last.ret = "True"
    /\ \E o \in DOMAIN task :
          /\ tasks[last.arg] = o
          /\ task[o].future # 0
          /\ futs[o][task[o].future].pc = "cancelled"

\* the attempts whose body raised and whose failure has been counted
CountedFailures ==
    UNION {{<<o, n>> : n \in {m \in 1..Len(futs[o]) :
                                 /\ futs[o][m].res = "err"
                                 /\ futs[o][m].pc \in {"retry", "put", "finally", "done"}}} :
             o \in 1..Len(futs)}

\* C17: when a task body raises, no Future ever holds the exception: the attempt
\* carries a failed TaskResult with the error, failed_tasks has been incremented
\* once for each such attempt that went past the increment, and the dispatch
\* thread of a running scheduler has not ended.
C17_FailureContained ==
    /\ \A o \in DOMAIN futs : \A n \in DOMAIN futs[o] :
          /\ futs[o][n].res # "exc"
          /\ futs[o][n].pc \in {"inc_failed", "retry", "put"} => futs[o][n].res = "err"
          /\ futs[o][n].pc = "done" => futs[o][n].res \in {"ok", "err"}
    /\ stats.failed_tasks = Cardinality(CountedFailures)
    /\ (is_running /\ loops # <<>>) => loops[Len(loops)].pc # "dead"

\* C17 witness: the first attempt of a task failed, and a task submitted later
\* that depends on it has since been dispatched and COMPLETED
C17_Witness ==
    \E a \in DOMAIN task, b \in DOMAIN task :
        /\ a # b
        /\ Len(futs[a]) >= 1 /\ futs[a][1].res = "err" /\ futs[a][1].pc = "done"
        /\ task[b].dependencies = {task[a].id}
        /\ task[b].status = COMPLETED
        /\ stats.failed_tasks >= 1

\* C18: the step in which the completion callback runs attaches the attempt's
\* result to the task and ends the Future with that same result, and changes
\* nothing else of the task, the counters or the queue, whether the callback
\* returns or raises.
C18_CallbackFailureIgnored ==
    [][\A o \in DOMAIN futs : \A n \in DOMAIN futs[o] :
          (futs[o][n].pc = "finally" /\ futs'[o][n].pc # "finally") =>
              /\ futs'[o][n] = [pc |-> "done", res |-> futs[o][n].res]
              /\ task' = [task EXCEPT ![o].result = futs[o][n].res]
              /\ UNCHANGED <<stats, task_queue, work_queue, tasks>>]_vars

\* C18 witness: the callback of a COMPLETED task has just raised
C18_Witness ==
    /\ last.op = "callback" /\ last.ret = "raises"
    /\ task[last.arg].status = COMPLETED
    /\ task[last.arg].result = "ok"
    /\ stats.completed_tasks >= 1

\* get_stats, lines 233-250, reads the counters and the registry under the lock
StatusCount(st) == Cardinality({o \in Registered : task[o].status = st})

\* no task is PENDING or RUNNING and no attempt is queued or in progress
Quiescent ==
    /\ StatusCount(PENDING) = 0
    /\ StatusCount(RUNNING) = 0
    /\ work_queue = <<>>
    /\ RunningWorkers = 0

\* C19: completed_tasks, failed_tasks and cancelled_tasks never decrease, and
\* whenever no task is PENDING or RUNNING (and no attempt is still recording its
\* outcome) they equal the numbers of COMPLETED, FAILED and CANCELLED tasks in
\* the registry.
C19_CountersCountOutcomes ==
    [][/\ stats'.completed_tasks >= stats.completed_tasks
       /\ stats'.failed_tasks >= stats.failed_tasks
       /\ stats'.cancelled_tasks >= stats.cancelled_tasks
       /\ Quiescent' =>
             /\ stats'.completed_tasks = StatusCount(COMPLETED)'
             /\ stats'.failed_tasks = StatusCount(FAILED)'
             /\ stats'.cancelled_tasks = StatusCount(CANCELLED)']_vars


\* ------------------------------------------------------- Claims: thread pool
\* the unit submitted last under key k (submission order is the index in units)
UnitsOf(us, k) == {u \in DOMAIN us : us[u].key = k}
LatestUnit(us, k) == CHOOSE u \in UnitsOf(us, k) : \A v \in UnitsOf(us, k) : v <= u

\* C20: submit has last-submission-wins semantics per key.  When submit(key)
\* accepts a unit, every unit submitted earlier under that key that has not
\* started is cancelled, and the key is bound to the new unit; a cancelled unit
\* never runs; and whenever is_running, is_done, get_result or cancel finds a
\* unit under a key, it is the unit submitted last under that key and the
\* answer is that unit's.
C20_LastSubmissionWins ==
    [][ /\ \A u \in DOMAIN units :
              units[u].state = "cancelled" => units'[u].state = "cancelled"
        /\ (pool_last'.op = "submit" /\ pool_last'.ret = "Future") =>
              /\ Len(units') = Len(units) + 1
              /\ pool_last'.unit = Len(units')
              /\ units'[Len(units')] = [key |-> pool_last'.key, state |-> "queued"]
              /\ futures'[pool_last'.key] = Len(units')
              /\ \A k \in PoolKeys \ {pool_last'.key} : futures'[k] = futures[k]
              /\ \A u \in DOMAIN units :
                    IF units[u].key = pool_last'.key /\ units[u].state = "queued"
                    THEN units'[u].state = "cancelled"
                    ELSE units'[u] = units[u]
        /\ (pool_last'.op \in {"is_running", "is_done", "get_result", "cancel"}
              /\ pool_last'.unit # NoUnit) =>
              /\ pool_last'.unit = LatestUnit(units, pool_last'.key)
              /\ pool_last'.op = "is_running" =>
                    (pool_last'.ret = "True") = (units[pool_last'.unit].state = "running")
              /\ pool_last'.op = "is_done" =>
                    (pool_last'.ret = "True") =
                        (units[pool_last'.unit].state \in {"done", "cancelled"})
              /\ pool_last'.op = "get_result" =>
                    (pool_last'.ret = "result") = (units[pool_last'.unit].state = "done")
              /\ pool_last'.op = "cancel" =>
                    /\ (pool_last'.ret = "True") = (units[pool_last'.unit].state = "queued")
                    /\ pool_last'.ret = "True" => units'[pool_last'.unit].state = "cancelled"
      ]_vars

\* a submission has just replaced a unit of the same key that had not started,
\* while a unit of another key is still waiting
C20_Witness ==
    /\ pool_last.op = "submit" /\ pool_last.ret = "Future"
    /\ pool_last.unit = futures[pool_last.key]
    /\ \E u \in DOMAIN units :
          /\ u < pool_last.unit
          /\ units[u].key = pool_last.key
          /\ units[u].state = "cancelled"
    /\ \E u \in DOMAIN units :
          units[u].key # pool_last.key /\ units[u].state \in {"queued", "running"}


\* C21: cancel(key) returns True only when the unit registered under the key has
\* not started, and that unit is then cancelled and never runs; for an unknown
\* key and for a unit that is running or done it returns False and leaves every
\* unit as it was.
C21_CancelBestEffort ==
    [][ /\ \A u \in DOMAIN units :
              units[u].state = "cancelled" => units'[u].state \notin {"running", "done"}
        /\ pool_last'.op = "cancel" =>
              /\ pool_last'.unit = futures[pool_last'.key]
              /\ futures' = futures
              /\ pool_last'.ret = "True" =>
                    /\ pool_last'.unit # NoUnit
                    /\ units[pool_last'.unit].state = "queued"
                    /\ units' = [units EXCEPT ![pool_last'.unit].state = "cancelled"]
              /\ futures[pool_last'.key] = NoUnit =>
                    pool_last'.ret = "False" /\ units' = units
              /\ (futures[pool_last'.key] # NoUnit
                    /\ units[futures[pool_last'.key]].state \in {"running", "done"}) =>
                    pool_last'.ret = "False" /\ units' = units
      ]_vars

\* cancel has just returned True for a unit that was waiting behind a running one
C21_Witness ==
    /\ pool_last.op = "cancel" /\ pool_last.ret = "True"
    /\ units[pool_last.unit].state = "cancelled"
    /\ \E u \in DOMAIN units : units[u].state = "running"


\* C22: shutdown(wait) cancels every tracked unit that has not started and leaves
\* the other units alone; a cancelled unit never runs; when shutdown returns the
\* map of tracked units is empty, and with wait=True no unit is executing any
\* more; a unit that is executing, whatever shutdown does, keeps executing until
\* it is done, and it does get done.
C22_ShutdownCancelsAndDrains ==
    /\ [][ /\ \A u \in DOMAIN units :
                 /\ units[u].state = "cancelled" => units'[u].state = "cancelled"
                 /\ units[u].state = "running" => units'[u].state \in {"running", "done"}
           /\ (shutdown_pc = "idle" /\ shutdown_pc' # "idle") =>
                 \A u \in DOMAIN units :
                     IF units[u].state = "queued" /\ futures[units[u].key] = u
                     THEN units'[u].state = "cancelled"
                     ELSE units'[u] = units[u]
           /\ pool_last'.op = "shutdown" =>
                 /\ \A k \in PoolKeys : futures'[k] = NoUnit
                 /\ pool_last'.key = "wait" =>
                       \A u \in DOMAIN units' : units'[u].state \notin {"queued", "running"}
         ]_vars
    /\ \A u \in 1..MaxUnits :
          (u \in DOMAIN units /\ units[u].state = "running")
              ~> (u \in DOMAIN units /\ units[u].state = "done")

\* shutdown(wait=False) has returned while a unit is still executing, after it
\* cancelled a unit that was waiting
C22_Witness ==
    /\ pool_last.op = "shutdown" /\ pool_last.key = "nowait"
    /\ \E u \in DOMAIN units : units[u].state = "running"
    /\ \E u \in DOMAIN units : units[u].state = "cancelled"


\* ------------------------------------------------------- Claims: priority queue
\* how many times item x is held in list h, and the smallest items of h
Count(h, x) == Cardinality({j \in DOMAIN h : h[j] = x})
IsMinimum(h, x) == Count(h, x) > 0 /\ \A j \in DOMAIN h : ~Comparator(h[j], x)

\* C23: pop removes and returns a smallest item: the item a pop returns is a
\* minimum of the items held just before it, the queue holds the other items
\* afterwards, and the items popped in a row come in non-decreasing order.
C23_PopReturnsMinimum ==
    [][ (pq_last'.op = "pop" /\ pq_last'.ret = "item") =>
          /\ IsMinimum(heap, pq_last'.val)
          /\ \A x \in Items :
                Count(heap', x) = Count(heap, x) - (IF x = pq_last'.val THEN 1 ELSE 0)
          /\ \A j \in 1..(Len(popped') - 1) : ~Comparator(popped'[j + 1], popped'[j])
      ]_vars

\* C24: on a queue that was only pushed to, top returns the smallest item pushed
\* so far and removes nothing.
C24_TopIsSmallestPushed ==
    [][ (pq_last'.op = "top" /\ heap # <<>>) =>
          /\ pq_last'.ret = "item"
          /\ IsMinimum(heap, pq_last'.val)
          /\ heap' = heap /\ size' = size
      ]_vars

\* top has answered on a queue of MaxHeap items whose last push was the smallest
C24_Witness ==
    /\ pq_last.op = "top" /\ pq_last.ret = "item"
    /\ Len(heap) = MaxHeap
    /\ heap[1] = 1 /\ Count(heap, 1) = 1
    /\ heap[2] # heap[MaxHeap]

\* C25: pop and top on a queue that holds nothing raise IndexError and leave it
\* empty, with size 0; so on a new queue and on a queue emptied by pops.
C25_EmptyRaises ==
    [][ (pq_last'.op \in {"pop", "top"} /\ heap = <<>>) =>
          /\ pq_last'.ret = "IndexError"
          /\ heap' = <<>>
          /\ size' = 0 /\ size = 0
      ]_vars

\* pop has raised on a queue that pops had emptied
C25_Witness ==
    /\ pq_last.op = "pop" /\ pq_last.ret = "IndexError"
    /\ Len(popped) > 1
    /\ heap = <<>>


\* ------------------------------------------------------- Claims: scheduler, locking
\* the worker threads that are at a `with self.lock` of _execute_task
WaitingForLock ==
    {<<o, n>> \in (DOMAIN futs) \X (1..(MaxRetries + 1)) :
        n \in DOMAIN futs[o] /\ futs[o][n].pc \in {"inc_completed", "inc_failed", "put"}}

\* C26: the lock of the scheduler is not held while the scheduler is inside a
\* call of the executor (stop() inside executor.shutdown), so the thread that
\* holds it never waits for a worker thread that needs it.
C26_NoLockAcrossPoolCall ==
    /\ stop_pc = "shutdown" => lock = "none"
    /\ ~(stop_pc = "shutdown" /\ lock = "stop" /\ WaitingForLock # {})


\* the attempts (_execute_task invocations) of Task object o that are in progress
AttemptsInProgress(o) == {n \in DOMAIN futs[o] : futs[o][n].pc \in WorkerPcs}

\* C27: at most one execution attempt of a task is in progress at any moment: a
\* retry attempt never starts while the previous attempt is still recording its
\* result or running the completion callback.
C27_SingleWriterPerTask ==
    \A o \in DOMAIN futs : Cardinality(AttemptsInProgress(o)) <= 1


\* C28: whenever a task is COMPLETED and no attempt of it is in progress, the
\* result attached to it is a success, also when earlier attempts failed.
C28_CompletedHasSuccessResult ==
    \A o \in DOMAIN task :
        (task[o].status = COMPLETED /\ AttemptsInProgress(o) = {}) =>
            task[o].result = "ok"


\* ------------------------------------------------------- Claims: StateManager, nested calls
\* C29 as claimed: after any set_state call returns, is_transitioning is false,
\* also for a call made from inside a state callback.
C29_FlagClearedOnEveryExit ==
    [][returned'.op = "set_state" => ~is_transitioning']_vars

\* C29 as amended: a set_state call that returns by success or by rollback leaves
\* is_transitioning false, also when it was made from inside a state callback; a
\* rejected call leaves the flag as it found it, which is false for a call made
\* outside every callback and true for a call rejected because a transition is
\* in progress.
C29_FlagClearedAfterTry ==
    [][returned'.op = "set_state" =>
          IF returned'.ret = "True" \/ returned'.raised
          THEN ~is_transitioning'
          ELSE /\ is_transitioning' = is_transitioning
               /\ calls = <<>> => ~is_transitioning'
               /\ (is_transitioning /\ ~returned'.force) => is_transitioning'
      ]_vars

\* inside a callback, a set_state without force has just been rejected and the
\* flag is still set
C29_Witness ==
    /\ returned.op = "set_state" /\ ~returned.force /\ returned.ret = "False"
    /\ ~returned.raised
    /\ calls # <<>>
    /\ is_transitioning


\* C30: a set_state without force that is made from inside the callback of an
\* ongoing transition returns False and changes neither the current state nor
\* the previous state, and the calls in progress go on as they were.
C30_NestedUnforcedRejected ==
    [][(returned'.op = "set_state" /\ ~returned'.force /\ calls' # <<>>) =>
          /\ returned'.ret = "False"
          /\ ~returned'.raised
          /\ current_state' = current_state
          /\ previous_state' = previous_state
          /\ calls' = calls
      ]_vars


\* ------------------------------------------------------- Claims: StateManager, threads
\* C31: set_state calls of different threads never interleave: all the calls in
\* progress belong to the one thread that owns the lock, and no call is in
\* progress when the lock is free; and a thread other than that one never reads a
\* current state other than the state before the outermost call in progress, so
\* never the tentative state of a transition that is rolled back.
C31_TransitionsAtomic ==
    /\ \A j \in DOMAIN calls : calls[j].thread = state_lock
    /\ calls = <<>> => state_lock = NoThread
    /\ (reader # NoRead /\ calls # <<>> /\ reader.thread # calls[1].thread) =>
          reader.value = CommittedState

\* while thread 1 is inside a callback that will raise, thread 1 itself has read
\* the tentative state
C31_Witness ==
    /\ calls # <<>>
    /\ calls[1].thread = 1 /\ calls[1].callback = "raises"
    /\ reader = [thread |-> 1, value |-> calls[1].new]
    /\ current_state # calls[1].old_state


\* ------------------------------------------------------- Claims: stop
\* C32: the step in which stop() is entered on a running scheduler sets is_running
\* to false, turns every Task that is PENDING into CANCELLED, adds the number of
\* those tasks to the cancelled counter and changes no other field of any task
\* and no other counter; stop() on a scheduler that is not running changes nothing.
C32_StopCancelsPending ==
    [][last'.op = "stop" =>
          IF is_running
          THEN /\ ~is_running'
               /\ DOMAIN task' = DOMAIN task
               /\ \A o \in DOMAIN task :
                     task'[o] = IF task[o].status = PENDING
                                THEN [task[o] EXCEPT !.status = CANCELLED]
                                ELSE task[o]
               /\ stats' = [stats EXCEPT !.cancelled_tasks =
                               @ + Cardinality({o \in DOMAIN task :
                                                  task[o].status = PENDING})]
          ELSE UNCHANGED <<is_running, shut, lock, stop_pc, tasks, task, futs,
                           work_queue, task_queue, stats, now, loops, hist>>]_vars

\* stop() has just cancelled a task that cancel_task never touched, and has left
\* a task that was running as it was
C32_Witness ==
    /\ last.op = "stop"
    /\ ~is_running
    /\ stats.cancelled_tasks = 1
    /\ \E o \in DOMAIN task :
          task[o].status = CANCELLED /\ ~hist[o] /\ task[o].future = 0
    /\ \E o \in DOMAIN task : task[o].status = RUNNING


\* ------------------------------------------------------- Claims: failed dependencies
\* the task registered under id d has ended FAILED or CANCELLED: no attempt of it
\* is left that could still write its status
DepEnded(d) ==
    /\ tasks[d] # NoTask
    /\ \/ task[tasks[d]].status = CANCELLED
       \/ /\ task[tasks[d]].status = FAILED
          /\ \A n \in DOMAIN futs[tasks[d]] :
                futs[tasks[d]][n].pc \in {"finally", "done", "cancelled"}

\* Task object o has a dependency that has ended FAILED or CANCELLED
BlockedForever(o) == \E d \in task[o].dependencies : DepEnded(d)

\* C33: a task with a dependency that has ended FAILED or CANCELLED is PENDING or
\* CANCELLED and has never been handed to the executor; while it is PENDING a
\* step leaves it PENDING or makes it CANCELLED, the latter only in a cancel_task
\* or stop() call; and when the dispatch loop handles its popped entry, the entry
\* goes back into the queue under the key (priority value, created_at) it was
\* submitted with.
C33_BlockedStaysPending ==
    [][\A o \in DOMAIN task :
          /\ BlockedForever(o)' =>
                /\ task'[o].status \in {PENDING, CANCELLED}
                /\ task'[o].future = 0
                /\ futs'[o] = <<>>
          /\ (BlockedForever(o) /\ task[o].status = PENDING) =>
                /\ task'[o].status = CANCELLED => last'.op \in {"cancel", "stop"}
                /\ \A t \in DOMAIN loops :
                      (/\ loops[t].pc = "have"
                       /\ loops[t].item[3] = task[o].id
                       /\ loops'[t].pc = "check") =>
                          /\ loops[t].item = <<PriorityBase - task[o].priority,
                                               task[o].created_at, task[o].id>>
                          /\ Len(task_queue') = Len(task_queue) + 1
                          /\ \E k \in DOMAIN task_queue' :
                                task_queue'[k] = loops[t].item]_vars

\* the dispatch loop has popped the entry of a PENDING task whose dependency has
\* failed for good, with the scheduler still running
C33_Witness ==
    /\ is_running
    /\ \E o \in DOMAIN task :
          /\ task[o].status = PENDING
          /\ \E d \in task[o].dependencies :
                tasks[d] # NoTask /\ task[tasks[d]].status = FAILED /\ DepEnded(d)
          /\ \E t \in DOMAIN loops :
                loops[t].pc = "have" /\ loops[t].item[3] = task[o].id


\* ------------------------------------------------------- Claims: restart
\* C34: every task with status RUNNING has a Future, and the _execute_task run of
\* that Future is queued in the executor or executing the task function; no task
\* is RUNNING without a Future, also after stop() and a second start().
C34_RunningHasHandle ==
    \A o \in DOMAIN task :
        task[o].status = RUNNING =>
            /\ task[o].future # 0
            /\ futs[o][task[o].future].pc \in {"queued", "body"}


\* ------------------------------------------------------- Claims: registry
\* C35: the total-submitted counter equals the number of entries of the registry.
C35_TotalEqualsRegistry ==
    stats.total_tasks = Cardinality({i \in Ids : tasks[i] # NoTask})


\* ------------------------------------------------------- Claims: set_state, results
\* C36: when a set_state call returns False, current_state and previous_state are
\* what they were when the call began, whether the call was rejected or its
\* callback raised.
C36_FailedCallChangesNothing ==
    [][returned'.ret = "False" =>
          /\ current_state' = CallFrom
          /\ previous_state' = CallPrev]_vars

\* in a step in which a set_state call returns: a call made from its callback
\* got past the checks of lines 62-68
CallHadNested == Len(calls') < Len(calls) /\ calls[Len(calls)].nested

\* C37 as stated: when a set_state call returns True, current_state is its target
\* and previous_state is the state the call began in, whatever its callback did.
C37_SuccessSetsStates ==
    [][returned'.ret = "True" =>
          /\ current_state' = returned'.new
          /\ previous_state' = CallFrom]_vars

\* C37 amended: when a set_state call returns True and no call of set_state or
\* emergency_stop made from its callback got past the checks, current_state is
\* its target and previous_state is the state the call began in; calls that the
\* callback made and that were rejected change nothing of this.
C37_SuccessSetsStatesUnlessNested ==
    [][(returned'.ret = "True" /\ ~CallHadNested) =>
          /\ current_state' = returned'.new
          /\ previous_state' = CallFrom]_vars

\* set_state(line_following), called in idle with one other call made so far,
\* has returned True after its callback ran
C37_Witness ==
    /\ returned.op = "set_state" /\ returned.ret = "True"
    /\ returned.new = LINE_FOLLOWING /\ ~returned.force
    /\ state_change_callbacks[LINE_FOLLOWING] = "returns"
    /\ calls = <<>> /\ ncalls = 2
    /\ current_state = LINE_FOLLOWING /\ previous_state = IDLE


\* ------------------------------------------------------- Claims: ThreadPool, blocking
\* C38: a unit that calls a pool operation while some thread waits in get_result
\* gets its call answered and finishes.
C38_CallingUnitFinishes ==
    \A u \in 1..MaxUnits :
        (caller = [unit |-> u, pc |-> "waiting"] /\ getter # NoUnit)
            ~> (u \in DOMAIN units /\ units[u].state = "done")


\* ------------------------------------------------------- Claims: BaseTask
\* C39: when stop() returns from a call made on a task that was RUNNING or PAUSED
\* with its thread alive (the call went into Thread.join), it returns True and
\* the task is CANCELLED with the result of a cancelled task; and the state of a
\* task that is CANCELLED is never RUNNING again.
C39_StopCancelsRunning ==
    [][\A b \in BaseTasks :
          /\ (bt_lock[b] = "stop" /\ bt_lock'[b] = "none") =>
                /\ bt_last' = BtCalled(b, "stop", "True")
                /\ bt_state'[b] = "cancelled"
                /\ bt_result'[b] = "cancelled"
          /\ bt_state[b] = "cancelled" => bt_state'[b] # "running"]_vars


\* ------------------------------------------------------- Claims: ThreadPool, statistics
\* C40: in the dict get_stats returns, no count is negative, running, completed
\* and pending add up to the total, and no Future is counted twice: running plus
\* completed is at most the total.
C40_StatsConsistent ==
    pool_last.op = "get_stats" =>
        /\ pool_stats.pending_tasks >= 0
        /\ pool_stats.running_tasks + pool_stats.completed_tasks <= pool_stats.total_tasks
        /\ pool_stats.running_tasks + pool_stats.completed_tasks
              + pool_stats.pending_tasks = pool_stats.total_tasks

====
